---- MODULE Spec2Model ----
(***************************************************************************)
(* Model of the go2go translator's instantiation cache (rewrite.go) and    *)
(* type substitution engine (types.go).                                    *)
(*                                                                         *)
(* Type values are heap objects: a types.Type is the address (index) of    *)
(* its object in `heap`, so that Go pointer identity (==) on types is      *)
(* equality of addresses, and types.Identical is a structural comparison   *)
(* of the objects behind two addresses.  Address 0 is nil.                 *)
(***************************************************************************)
EXTENDS Integers, Sequences, FiniteSets, TLC

VARIABLES
    heap,                \* the type objects allocated so far, by address
    typeInstantiations,  \* t.typeInstantiations: types.Type -> []*typeInstantiation
    instantiations,      \* t.instantiations: string -> []*instantiation
    newDecls,            \* t.newDecls: identifiers of the queued generated declarations
    err,                 \* t.err # nil
    nextIdent,           \* number of *ast.Ident nodes synthesized so far
    log,                 \* one entry per handler call made so far (observation only)
    pkg,                 \* check.objMap: the package's declarations, by object
    color,               \* obj.color_ of every object
    otyp,                \* obj.typ of every object
    objPath,             \* check.objPath
    named,               \* the *Named made by typeDecl for every defined type
    leafTyp,             \* the type the reference of a declaration resolved to
    frames,              \* the objDecl calls in progress, innermost last
    delayed,             \* check.delayed: the objects whose validType is pending
    diags,               \* the errors reported through check.errorf, in order
    nextObj,             \* how many objects packageObjects has visited
    rlog,                \* one entry per cycle / validType call (observation only)
    fieldList,            \* list.List of the type parameter list being collected
    typeParams,          \* the type parameters declared so far, in order
    scope,               \* the names declared in check.scope
    unused,              \* the map unused of collectTypeParams
    cpc,                 \* the loop collectTypeParams is in, its field and index
    cerrs,               \* the errors reported while collecting
    clog,                \* one entry per bound expression handled (observation only)
    rewriteArgs,         \* rewriteFile's arguments importPath and addImportableName
    declsToDo,           \* declsToDo of translate: the declarations of the current pass
    keptDecls,           \* the local newDecls of translate: what the pass keeps
    fileDecls,           \* file.Decls
    bodies,              \* the instantiation sites of each generated declaration
    fpc,                 \* where rewriteFile is: the loop, the declaration, the site
    outFile,             \* what rewriteAST returned and what rewriteFile wrote
    convIn,              \* the arguments x and T of the call of check.conversion
    convX,               \* the operand *x
    untypedFinal,        \* the final types given to updateExprType, in order
    convpc               \* "idle", "call" or "returned"

\* The translator's state and the type checker's state.
tvars == <<heap, typeInstantiations, instantiations, newDecls, err, nextIdent, log>>
rvars == <<pkg, color, otyp, objPath, named, leafTyp, frames, delayed, diags,
           nextObj, rlog>>

cvars == <<fieldList, typeParams, scope, unused, cpc, cerrs, clog>>
fvars == <<rewriteArgs, declsToDo, keptDecls, fileDecls, bodies, fpc, outFile>>
xvars == <<convIn, convX, untypedFinal, convpc>>
vars == <<tvars, rvars, cvars, fvars, xvars>>

\* Number of handler calls explored in one translation session.
MaxCalls == 2

----------------------------------------------------------------------------
(* The type universe the session starts with (what the type checker left   *)
(* in info.Types).  Objects are named here; an address is the position of  *)
(* the name in Names0.                                                     *)

Names0 ==
    << "int", "string", "T", "U",
       "sliceInt", "sliceInt2",
       "arrT", "sliceT", "ptrU", "mapTU", "chanT",
       "structTagged", "structPlain",
       "tupAB", "tupR", "sigGet",
       "tupXs", "sigVar",
       "tupN", "sigLen",
       "Get", "Len",
       "ifaceBig",
       "ifaceLen", "Stringer", "C_U",
       "G", "G_T", "P_int_U",
       "L", "ptrL", "structSelf" >>

A(n) == CHOOSE i \in 1..Len(Names0) : Names0[i] = n

Var(n, t) == [name |-> n, typ |-> t]

Heap0 ==
    << [kind |-> "Basic", name |-> "int"],
       [kind |-> "Basic", name |-> "string"],
       [kind |-> "TypeParam", name |-> "T", index |-> 0],
       [kind |-> "TypeParam", name |-> "U", index |-> 1],
       [kind |-> "Slice", elem |-> A("int")],
       [kind |-> "Slice", elem |-> A("int")],
       [kind |-> "Array", elem |-> A("T"), len |-> 3],
       [kind |-> "Slice", elem |-> A("T")],
       [kind |-> "Pointer", elem |-> A("U")],
       [kind |-> "Map", key |-> A("T"), elem |-> A("U")],
       [kind |-> "Chan", dir |-> "SendOnly", elem |-> A("T")],
       [kind |-> "Struct",
        fields |-> <<Var("x", A("T")), Var("y", A("int"))>>,
        tags |-> <<"k">>],
       [kind |-> "Struct",
        fields |-> <<Var("x", A("int")), Var("y", A("U"))>>,
        tags |-> <<>>],
       [kind |-> "Tuple", vars |-> <<Var("a", A("T")), Var("b", A("int"))>>],
       [kind |-> "Tuple", vars |-> <<Var("r", A("U"))>>],
       [kind |-> "Signature", recv |-> "", params |-> A("tupAB"),
        results |-> A("tupR"), variadic |-> FALSE, tparams |-> <<>>],
       [kind |-> "Tuple", vars |-> <<Var("xs", A("sliceT"))>>],
       [kind |-> "Signature", recv |-> "r", params |-> A("tupXs"),
        results |-> 0, variadic |-> TRUE, tparams |-> <<A("U")>>],
       [kind |-> "Tuple", vars |-> <<Var("n", A("int"))>>],
       [kind |-> "Signature", recv |-> "", params |-> 0,
        results |-> A("tupN"), variadic |-> FALSE, tparams |-> <<>>],
       [kind |-> "Func", name |-> "Get", typ |-> A("sigGet")],
       [kind |-> "Func", name |-> "Len", typ |-> A("sigLen")],
       [kind |-> "Interface", methods |-> <<A("Get"), A("Len")>>,
        embeddeds |-> <<A("Stringer"), A("C_U")>>],
       [kind |-> "Interface", methods |-> <<A("Len")>>, embeddeds |-> <<>>],
       [kind |-> "Named", obj |-> A("Stringer"), name |-> "Stringer",
        underlying |-> A("ifaceLen"), methods |-> <<>>,
        targs |-> <<>>, tparams |-> <<>>],
       [kind |-> "Named", obj |-> A("C_U"), name |-> "C",
        underlying |-> A("ifaceLen"), methods |-> <<>>,
        targs |-> <<A("U")>>, tparams |-> <<>>],
       [kind |-> "Named", obj |-> A("G"), name |-> "G",
        underlying |-> A("structTagged"), methods |-> <<A("Len")>>,
        targs |-> <<>>, tparams |-> <<A("T")>>],
       [kind |-> "Named", obj |-> A("G"), name |-> "G",
        underlying |-> A("structTagged"), methods |-> <<A("Len")>>,
        targs |-> <<A("T")>>, tparams |-> <<>>],
       [kind |-> "Named", obj |-> A("P_int_U"), name |-> "P",
        underlying |-> A("structPlain"), methods |-> <<A("Get"), A("Len")>>,
        targs |-> <<A("int"), A("U")>>, tparams |-> <<>>],
       [kind |-> "Named", obj |-> A("L"), name |-> "L",
        underlying |-> A("structSelf"), methods |-> <<>>,
        targs |-> <<>>, tparams |-> <<A("T")>>],
       [kind |-> "Pointer", elem |-> A("L")],
       [kind |-> "Struct",
        fields |-> <<Var("v", A("T")), Var("next", A("ptrL"))>>,
        tags |-> <<>>] >>

\* The addresses of Heap0 that are types (a *types.Func is an object, not a type).
Types0 == {a \in 1..Len(Heap0) : Heap0[a].kind # "Func"}

----------------------------------------------------------------------------
(* types.Identical and translator.sameTypes                               *)

RECURSIVE Identical(_, _, _)
RECURSIVE IdenticalLists(_, _, _)
RECURSIVE IdenticalVars(_, _, _)

\* types.Identical(x, y) on the objects of heap h: structural for the
\* composite shapes, by declaring object for named types, by identity for
\* type parameters.
Identical(h, x, y) ==
    IF x = y THEN TRUE
    ELSE IF x = 0 \/ y = 0 THEN FALSE
    ELSE IF h[x].kind # h[y].kind THEN FALSE
    ELSE CASE h[x].kind = "Basic" -> h[x].name = h[y].name
           [] h[x].kind = "Array" ->
                h[x].len = h[y].len /\ Identical(h, h[x].elem, h[y].elem)
           [] h[x].kind \in {"Slice", "Pointer"} ->
                Identical(h, h[x].elem, h[y].elem)
           [] h[x].kind = "Map" ->
                Identical(h, h[x].key, h[y].key) /\ Identical(h, h[x].elem, h[y].elem)
           [] h[x].kind = "Chan" ->
                h[x].dir = h[y].dir /\ Identical(h, h[x].elem, h[y].elem)
           [] h[x].kind = "Struct" ->
                /\ IdenticalVars(h, h[x].fields, h[y].fields)
                /\ \A i \in 1..Len(h[x].fields) :
                      /\ h[x].fields[i].name = h[y].fields[i].name
                      /\ (IF i <= Len(h[x].tags) THEN h[x].tags[i] ELSE "")
                           = (IF i <= Len(h[y].tags) THEN h[y].tags[i] ELSE "")
           [] h[x].kind = "Tuple" -> IdenticalVars(h, h[x].vars, h[y].vars)
           [] h[x].kind = "Signature" ->
                /\ h[x].variadic = h[y].variadic
                /\ Identical(h, h[x].params, h[y].params)
                /\ Identical(h, h[x].results, h[y].results)
           [] h[x].kind = "Interface" ->
                /\ Len(h[x].methods) = Len(h[y].methods)
                /\ \A i \in 1..Len(h[x].methods) :
                      /\ h[h[x].methods[i]].name = h[h[y].methods[i]].name
                      /\ Identical(h, h[h[x].methods[i]].typ, h[h[y].methods[i]].typ)
                /\ IdenticalLists(h, h[x].embeddeds, h[y].embeddeds)
           [] h[x].kind = "Named" -> h[x].obj = h[y].obj
           [] OTHER -> FALSE

IdenticalLists(h, a, b) ==
    /\ Len(a) = Len(b)
    /\ \A i \in 1..Len(a) : Identical(h, a[i], b[i])

IdenticalVars(h, a, b) ==
    /\ Len(a) = Len(b)
    /\ \A i \in 1..Len(a) : Identical(h, a[i].typ, b[i].typ)

\* A comparison that forgets the length check and compares the common prefix.
sameTypesPrefix(h, a, b) ==
    \A i \in 1..(IF Len(a) < Len(b) THEN Len(a) ELSE Len(b)) : Identical(h, a[i], b[i])

\* A comparison by identity of the type values instead of types.Identical.
sameTypesByAddress(h, a, b) == a = b

\* translator.sameTypes
sameTypes(h, a, b) ==
    IF Len(a) # Len(b) THEN FALSE
    ELSE \A i \in 1..Len(a) : Identical(h, a[i], b[i])

----------------------------------------------------------------------------
(* The type substitution engine: instantiateType and doInstantiateType.    *)
(* The operators thread the heap h and the memo table ti through the       *)
(* recursion and return [heap, ti, res]; the per-shape operators that only *)
(* allocate return [heap, res].                                            *)

\* A map read: insts := t.typeInstantiations[typ] (nil when absent).
Insts(ti, typ) == IF typ \in DOMAIN ti THEN ti[typ] ELSE <<>>

\* A map write: t.typeInstantiations[typ] = list.
PutInsts(ti, typ, list) ==
    [x \in (DOMAIN ti) \cup {typ} |-> IF x = typ THEN list ELSE ti[x]]

\* A scan that stops one record short of the end of the list.
FindInstSkipLast(h, insts, types) ==
    LET S == {i \in 1..(Len(insts) - 1) : sameTypes(h, types, insts[i].types)}
    IN  IF S = {} THEN 0 ELSE CHOOSE i \in S : \A j \in S : i <= j

\* The scan `for _, inst := range insts { if t.sameTypes(types, inst.types)`:
\* the index of the first record whose type list is the same, 0 when none.
FindInst(h, insts, types) ==
    LET S == {i \in 1..Len(insts) : sameTypes(h, types, insts[i].types)}
    IN  IF S = {} THEN 0 ELSE CHOOSE i \in S : \A j \in S : i <= j

\* typeArgs.typ: the type argument bound to a type parameter, if any.
TaHas(ta, param) == param \in DOMAIN ta.toTyp
TaTyp(ta, param) == ta.toTyp[param]

New(h, obj) == [heap |-> Append(h, obj), res |-> Len(h) + 1]
Same(h, typ) == [heap |-> h, res |-> typ]

\* Struct.Tag(i)
Tag(s, i) == IF i <= Len(s.tags) THEN s.tags[i] ELSE ""

\* case *types.Array: the rebuilt array is made from elem, not instElem.
ArrayResult(h, typ, instElem) ==
    IF h[typ].elem = instElem THEN Same(h, typ)
    ELSE New(h, [kind |-> "Array", elem |-> h[typ].elem, len |-> h[typ].len])

\* case *types.Slice
SliceResult(h, typ, instElem) ==
    IF h[typ].elem = instElem THEN Same(h, typ)
    ELSE New(h, [kind |-> "Slice", elem |-> instElem])

\* case *types.Pointer
PointerResult(h, typ, instElem) ==
    IF h[typ].elem = instElem THEN Same(h, typ)
    ELSE New(h, [kind |-> "Pointer", elem |-> instElem])

\* A map rebuilt only when its key changed.
MapResultKeyOnly(h, typ, key, elem) ==
    IF key = h[typ].key THEN Same(h, typ)
    ELSE New(h, [kind |-> "Map", key |-> key, elem |-> elem])

\* case *types.Map
MapResult(h, typ, key, elem) ==
    IF key = h[typ].key /\ elem = h[typ].elem THEN Same(h, typ)
    ELSE New(h, [kind |-> "Map", key |-> key, elem |-> elem])

\* case *types.Chan
ChanResult(h, typ, elem) ==
    IF elem = h[typ].elem THEN Same(h, typ)
    ELSE New(h, [kind |-> "Chan", dir |-> h[typ].dir, elem |-> elem])

\* A struct rebuilt with the tags dropped.
StructResultNoTags(h, typ, instTypes) ==
    LET s == h[typ]
        n == Len(s.fields)
    IN  IF \A i \in 1..n : s.fields[i].typ = instTypes[i] THEN Same(h, typ)
        ELSE New(h, [kind |-> "Struct",
                     fields |-> [i \in 1..n |-> Var(s.fields[i].name, instTypes[i])],
                     tags |-> <<>>])

\* case *types.Struct, after the loop has substituted the field types
StructResult(h, typ, instTypes) ==
    LET s == h[typ]
        n == Len(s.fields)
        fields == [i \in 1..n |-> Var(s.fields[i].name, instTypes[i])]
        changed == \E i \in 1..n : s.fields[i].typ # instTypes[i]
        tags == [i \in 1..n |-> Tag(s, i)]
        hasTag == \E i \in 1..n : Tag(s, i) # ""
    IN  IF ~changed THEN Same(h, typ)
        ELSE New(h, [kind |-> "Struct", fields |-> fields,
                     tags |-> IF hasTag THEN tags ELSE <<>>])

\* instantiateTypeTuple, after the loop has substituted the variables' types
TupleResult(h, tuple, instTypes) ==
    LET l == Len(h[tuple].vars)
        changed == \E i \in 1..l : h[tuple].vars[i].typ # instTypes[i]
    IN  IF ~changed THEN Same(h, tuple)
        ELSE New(h, [kind |-> "Tuple",
                     vars |-> [i \in 1..l |-> Var(h[tuple].vars[i].name, instTypes[i])]])

\* A signature rebuilt without its own type-parameter list.
SignatureResultNoTParams(h, typ, params, results) ==
    IF params = h[typ].params /\ results = h[typ].results THEN Same(h, typ)
    ELSE New(h, [kind |-> "Signature", recv |-> h[typ].recv, params |-> params,
                 results |-> results, variadic |-> h[typ].variadic,
                 tparams |-> <<>>])

\* case *types.Signature, after both tuples have been substituted
SignatureResult(h, typ, params, results) ==
    IF params = h[typ].params /\ results = h[typ].results THEN Same(h, typ)
    ELSE New(h, [kind |-> "Signature", recv |-> h[typ].recv, params |-> params,
                 results |-> results, variadic |-> h[typ].variadic,
                 tparams |-> h[typ].tparams])

\* A method object that is replaced even when its signature did not change.
MethodResultAlways(h, m, instSig) ==
    New(h, [kind |-> "Func", name |-> h[m].name, typ |-> instSig])

\* case *types.Interface, one explicit method: a new *types.Func when the
\* signature changed, the original method otherwise.
MethodResult(h, m, instSig) ==
    IF instSig # h[m].typ
    THEN New(h, [kind |-> "Func", name |-> h[m].name, typ |-> instSig])
    ELSE Same(h, m)

\* case *types.Interface, after the methods and embedded types were substituted
InterfaceResult(h, typ, methods, embeddeds) ==
    LET changed == \/ \E i \in 1..Len(methods) : methods[i] # h[typ].methods[i]
                   \/ \E i \in 1..Len(embeddeds) : embeddeds[i] # h[typ].embeddeds[i]
    IN  IF ~changed THEN Same(h, typ)
        ELSE New(h, [kind |-> "Interface", methods |-> methods, embeddeds |-> embeddeds])

\* A named type rebuilt without the original's methods.
NamedResultNoMethods(h, typ, newTargs) ==
    LET targs == h[typ].targs
    IN  IF Len(targs) > 0 /\ \E i \in 1..Len(targs) : newTargs[i] # targs[i]
        THEN New(h, [kind |-> "Named", obj |-> Len(h) + 1, name |-> h[typ].name,
                     underlying |-> h[typ].underlying, methods |-> <<>>,
                     targs |-> newTargs, tparams |-> <<>>])
        ELSE Same(h, typ)

\* case *types.Named, after the type arguments were substituted: a new
\* type-name object and a new named type around the original underlying type
\* and methods.
NamedResult(h, typ, newTargs) ==
    LET targs == h[typ].targs
        targsChanged == Len(targs) > 0 /\ \E i \in 1..Len(targs) : newTargs[i] # targs[i]
    IN  IF targsChanged
        THEN New(h, [kind |-> "Named", obj |-> Len(h) + 1, name |-> h[typ].name,
                     underlying |-> h[typ].underlying, methods |-> h[typ].methods,
                     targs |-> newTargs, tparams |-> <<>>])
        ELSE Same(h, typ)

\* case *types.TypeParam without the lookup in the type-argument list.
TypeParamResultSame(ta, typ) == typ

\* case *types.TypeParam
TypeParamResult(ta, typ) ==
    IF TaHas(ta, typ) THEN TaTyp(ta, typ) ELSE typ

RECURSIVE instantiateType(_, _, _, _)
RECURSIVE doInstantiateType(_, _, _, _)
RECURSIVE instantiateTypeTuple(_, _, _, _)
RECURSIVE InstEach(_, _, _, _)
RECURSIVE InstMethods(_, _, _, _)

\* The state after the recursion r and the allocation n, with n's result.
Done(r, n) == [heap |-> n.heap, ti |-> r.ti, res |-> n.res]

\* One more substituted type x in front of those of the rest of a loop.
Cons(x, r) == [heap |-> r.heap, ti |-> r.ti, res |-> <<x>> \o r.res]

\* One iteration of a loop over types, r1 being the substituted head.
EachStep(r1, ta, rest) == Cons(r1.res, InstEach(r1.heap, r1.ti, ta, rest))

\* The loops `for ... { t.instantiateType(ta, x) }` over a list of types, in order.
InstEach(h, ti, ta, typs) ==
    IF typs = <<>> THEN [heap |-> h, ti |-> ti, res |-> <<>>]
    ELSE EachStep(instantiateType(h, ti, ta, Head(typs)), ta, Tail(typs))

\* One iteration of the method loop, n being the method kept or made for the
\* substituted signature.
MethodRest(r1, n, ta, rest) == Cons(n.res, InstMethods(n.heap, r1.ti, ta, rest))

\* One iteration of the method loop, r1 being the substituted signature of m.
MethodStep(r1, m, ta, rest) ==
    MethodRest(r1, MethodResult(r1.heap, m, r1.res), ta, rest)

\* The loop over the explicit methods of an interface.
InstMethods(h, ti, ta, methods) ==
    IF methods = <<>> THEN [heap |-> h, ti |-> ti, res |-> <<>>]
    ELSE MethodStep(instantiateType(h, ti, ta, h[Head(methods)].typ),
                    Head(methods), ta, Tail(methods))

\* The types of the variables of a tuple or of the fields of a struct.
VarTypes(vs) == [i \in 1..Len(vs) |-> vs[i].typ]

TupleCase(r, tuple) == Done(r, TupleResult(r.heap, tuple, r.res))

\* translator.instantiateTypeTuple
instantiateTypeTuple(h, ti, ta, tuple) ==
    IF tuple = 0 THEN [heap |-> h, ti |-> ti, res |-> 0]
    ELSE TupleCase(InstEach(h, ti, ta, VarTypes(h[tuple].vars)), tuple)

ArrayCase(r, typ) == Done(r, ArrayResult(r.heap, typ, r.res))
SliceCase(r, typ) == Done(r, SliceResult(r.heap, typ, r.res))
StructCase(r, typ) == Done(r, StructResult(r.heap, typ, r.res))
PointerCase(r, typ) == Done(r, PointerResult(r.heap, typ, r.res))
ChanCase(r, typ) == Done(r, ChanResult(r.heap, typ, r.res))
NamedCase(r, typ) == Done(r, NamedResult(r.heap, typ, r.res))

\* case *types.Signature: p is the substituted parameter tuple, r the
\* substituted result tuple.
SignatureDone(p, r, typ) == Done(r, SignatureResult(r.heap, typ, p.res, r.res))
SignatureCase(p, ta, typ) ==
    SignatureDone(p, instantiateTypeTuple(p.heap, p.ti, ta, p.heap[typ].results), typ)

\* case *types.Interface: m is the outcome of the method loop, e that of the
\* loop over the embedded types.
InterfaceDone(m, e, typ) == Done(e, InterfaceResult(e.heap, typ, m.res, e.res))
InterfaceCase(m, ta, typ) ==
    InterfaceDone(m, InstEach(m.heap, m.ti, ta, m.heap[typ].embeddeds), typ)

\* case *types.Map: the key is substituted first, then the element.
MapDone(key, elem, typ) == Done(elem, MapResult(elem.heap, typ, key.res, elem.res))
MapCase(key, ta, typ) ==
    MapDone(key, instantiateType(key.heap, key.ti, ta, key.heap[typ].elem), typ)

\* translator.doInstantiateType
doInstantiateType(h, ti, ta, typ) ==
    CASE h[typ].kind = "Basic" -> [heap |-> h, ti |-> ti, res |-> typ]
      [] h[typ].kind = "Array" ->
           ArrayCase(instantiateType(h, ti, ta, h[typ].elem), typ)
      [] h[typ].kind = "Slice" ->
           SliceCase(instantiateType(h, ti, ta, h[typ].elem), typ)
      [] h[typ].kind = "Struct" ->
           StructCase(InstEach(h, ti, ta, VarTypes(h[typ].fields)), typ)
      [] h[typ].kind = "Pointer" ->
           PointerCase(instantiateType(h, ti, ta, h[typ].elem), typ)
      [] h[typ].kind = "Tuple" -> instantiateTypeTuple(h, ti, ta, typ)
      [] h[typ].kind = "Signature" ->
           SignatureCase(instantiateTypeTuple(h, ti, ta, h[typ].params), ta, typ)
      [] h[typ].kind = "Interface" ->
           InterfaceCase(InstMethods(h, ti, ta, h[typ].methods), ta, typ)
      [] h[typ].kind = "Map" ->
           MapCase(instantiateType(h, ti, ta, h[typ].key), ta, typ)
      [] h[typ].kind = "Chan" ->
           ChanCase(instantiateType(h, ti, ta, h[typ].elem), typ)
      [] h[typ].kind = "Named" ->
           NamedCase(InstEach(h, ti, ta, h[typ].targs), typ)
      [] h[typ].kind = "TypeParam" ->
           [heap |-> h, ti |-> ti, res |-> TypeParamResult(ta, typ)]

\* The record appended after doInstantiateType returned r:
\* t.typeInstantiations[typ] = append(t.typeInstantiations[typ], typinst).
Memoize(r, ta, typ) ==
    [heap |-> r.heap,
     ti |-> PutInsts(r.ti, typ,
                     Append(Insts(r.ti, typ),
                            [types |-> ta.types, decl |-> 0, typ |-> r.res])),
     res |-> r.res]

\* The result of a memo hit on record i.
MemoHit(h, ti, typ, i) == [heap |-> h, ti |-> ti, res |-> Insts(ti, typ)[i].typ]

\* instantiateType without the memo scan: every call substitutes and records.
AfterScanNoMemo(h, ti, ta, typ, i) ==
    Memoize(doInstantiateType(h, ti, ta, typ), ta, typ)

\* The memo scan of instantiateType, i being the index it yields.
AfterScan(h, ti, ta, typ, i) ==
    IF i # 0 THEN MemoHit(h, ti, typ, i)
    ELSE Memoize(doInstantiateType(h, ti, ta, typ), ta, typ)

\* translator.instantiateType: the memo scan, then doInstantiateType and a
\* new record appended to the list as it is after the recursion.
instantiateType(h, ti, ta, typ) ==
    AfterScan(h, ti, ta, typ, FindInst(h, Insts(ti, typ), ta.types))

----------------------------------------------------------------------------
(* The generic entities of the file and the requests made on them.         *)

\* The generic functions of the file, by the key qid.String() of their name.
GenericFuncs == {"F", "H"}

\* The type parameters of a generic function, in order.
FuncTParams(key) == IF key = "F" THEN <<A("T")>> ELSE <<A("T"), A("U")>>

\* The signature of a generic function.
FuncSig(key) == IF key = "F" THEN A("sigVar") ELSE A("sigGet")

\* The generic named types of the file: those with type parameters and no
\* type arguments (the test of translateExpr before translateTypeInstantiation).
GenericTypes == {a \in Types0 : /\ Heap0[a].kind = "Named"
                                /\ Len(Heap0[a].tparams) > 0
                                /\ Len(Heap0[a].targs) = 0}

\* The type-argument lists of the instantiation sites of the file.
TypeLists ==
    { <<A("int")>>, <<A("sliceInt")>>, <<A("sliceInt2")>>, <<A("int"), A("string")>> }

\* typeArgs: the ordered type arguments and the map from type parameter to
\* type argument, matched by position.
TypeArgsFor(typeList, tparams) ==
    LET n == IF Len(typeList) < Len(tparams) THEN Len(typeList) ELSE Len(tparams)
    IN  [types |-> typeList,
         toTyp |-> [p \in {tparams[i] : i \in 1..n} |->
                      typeList[CHOOSE i \in 1..n : tparams[i] = p]]]

\* The typeArgs values with which the synthesizer substitutes the types of the
\* expressions it copies.
TAs ==
    { TypeArgsFor(<<A("int")>>, <<A("T")>>),
      TypeArgsFor(<<A("int")>>, <<A("U")>>),
      TypeArgsFor(<<A("string"), A("sliceInt2")>>, <<A("T"), A("U")>>) }

\* The outcome of a failed synthesis.
SynthFailed(h, ti, decls, ident) ==
    [heap |-> h, ti |-> ti, newDecls |-> decls, nextIdent |-> ident,
     ident |-> 0, typ |-> 0, err |-> TRUE]

\* The outcome of a synthesis that substituted with outcome r: a fresh
\* identifier and the new declaration queued.
Synthesized(r, decls, ident) ==
    [heap |-> r.heap, ti |-> r.ti, newDecls |-> Append(decls, ident + 1),
     nextIdent |-> ident + 1, ident |-> ident + 1, typ |-> r.res, err |-> FALSE]

\* translator.instantiateFunction: fails (ok = FALSE) without effect, or
\* substitutes through the function's signature, makes a fresh identifier
\* and queues the new declaration.
instantiateFunction(h, ti, decls, ident, key, typeList, ok) ==
    IF ~ok THEN SynthFailed(h, ti, decls, ident)
    ELSE Synthesized(instantiateType(h, ti, TypeArgsFor(typeList, FuncTParams(key)),
                                     FuncSig(key)),
                     decls, ident)

\* translator.instantiateTypeDecl: fails (ok = FALSE) without effect, or
\* substitutes through the type's underlying shape, makes a fresh identifier
\* and queues the new declaration.
instantiateTypeDecl(h, ti, decls, ident, typ, typeList, ok) ==
    IF ~ok THEN SynthFailed(h, ti, decls, ident)
    ELSE Synthesized(instantiateType(h, ti, TypeArgsFor(typeList, h[typ].tparams),
                                     h[typ].underlying),
                     decls, ident)

\* One entry of the observation log.
Entry(op, key, typ, ta, hit, failed, form, ident, res, recsBefore, recsAfter) ==
    [op |-> op, key |-> key, typ |-> typ, ta |-> ta, types |-> ta.types,
     hit |-> hit, failed |-> failed, form |-> form, ident |-> ident, res |-> res,
     recsBefore |-> recsBefore, recsAfter |-> recsAfter,
     declsBefore |-> Len(newDecls), declsAfter |-> Len(newDecls'),
     identsBefore |-> nextIdent, heapBefore |-> Len(heap)]

----------------------------------------------------------------------------
(* The session.                                                            *)

\* A translation session starts.
InitSession ==
    /\ heap = Heap0
    /\ typeInstantiations = <<>>
    /\ instantiations = [k \in {} |-> <<>>]
    /\ newDecls = <<>>
    /\ err = FALSE
    /\ nextIdent = 0
    /\ log = <<>>

\* No package is being type-checked.
NoChecker ==
    /\ pkg = <<>>
    /\ color = <<>>
    /\ otyp = <<>>
    /\ objPath = <<>>
    /\ named = <<>>
    /\ leafTyp = <<>>
    /\ frames = <<>>
    /\ delayed = <<>>
    /\ diags = <<>>
    /\ nextObj = 0
    /\ rlog = <<>>

\* No type parameter list is being collected.
NoTypeParams ==
    /\ fieldList = <<>>
    /\ typeParams = <<>>
    /\ scope = {}
    /\ unused = <<>>
    /\ cpc = [loop |-> "done", f |-> 0, index |-> 0]
    /\ cerrs = <<>>
    /\ clog = <<>>

\* No file is being rewritten.
NoFile ==
    /\ rewriteArgs = [importPath |-> "", addImportableName |-> FALSE]
    /\ declsToDo = <<>>
    /\ keptDecls = <<>>
    /\ fileDecls = <<>>
    /\ bodies = <<>>
    /\ fpc = [at |-> "idle", i |-> 0, j |-> 0]
    /\ outFile = [astErr |-> "", err |-> "", created |-> FALSE, decls |-> <<>>]

\* No conversion is being checked.
NoOperand ==
    /\ convIn = <<>>
    /\ convX = <<>>
    /\ untypedFinal = <<>>
    /\ convpc = "idle"

Init == InitSession /\ NoChecker /\ NoTypeParams /\ NoFile /\ NoOperand

\* The request found record i of insts: nothing is synthesized or recorded.
RequestHit(op, key, typ, ta, form, insts, i) ==
    /\ UNCHANGED <<heap, typeInstantiations, instantiations, newDecls, err, nextIdent>>
    /\ log' = Append(log, Entry(op, key, typ, ta, TRUE, FALSE, form, insts[i].decl,
                                IF op = "type" THEN insts[i].typ ELSE 0,
                                Len(insts), Len(insts)))

\* The synthesis failed: t.err = err; return.
RequestFailed(op, key, typ, ta, insts) ==
    /\ err' = TRUE
    /\ UNCHANGED <<heap, typeInstantiations, instantiations, newDecls, nextIdent>>
    /\ log' = Append(log, Entry(op, key, typ, ta, FALSE, TRUE, "", 0, 0,
                                Len(insts), Len(insts)))

\* translateFunctionInstantiation after a miss, r being the outcome of
\* instantiateFunction: the record is appended to the list read before it.
FunctionMiss(r, key, ta, form, insts) ==
    IF r.err THEN RequestFailed("func", key, 0, ta, insts)
    ELSE /\ heap' = r.heap
         /\ typeInstantiations' = r.ti
         /\ newDecls' = r.newDecls
         /\ nextIdent' = r.nextIdent
         /\ instantiations' =
               PutInsts(instantiations, key,
                        Append(insts, [types |-> ta.types, decl |-> r.ident]))
         /\ UNCHANGED err
         /\ log' = Append(log, Entry("func", key, 0, ta, FALSE, FALSE, form, r.ident,
                                     r.typ, Len(insts), Len(insts) + 1))

\* The scan of translateFunctionInstantiation yielded i.
FunctionRequest(key, typeList, ta, form, ok, insts, i) ==
    IF i # 0 /\ insts[i].decl # 0
    THEN RequestHit("func", key, 0, ta, form, insts, i)
    ELSE FunctionMiss(instantiateFunction(heap, typeInstantiations, newDecls,
                                          nextIdent, key, typeList, ok),
                      key, ta, form, insts)

\* The body of translateFunctionInstantiation on the call of key with typeList:
\* the scan of t.instantiations[key], then the hit or the miss.
FunctionSite(key, typeList, inferred, ok) ==
    FunctionRequest(key, typeList, TypeArgsFor(typeList, FuncTParams(key)),
                    IF inferred THEN "call" ELSE "ident", ok,
                    Insts(instantiations, key),
                    FindInst(heap, Insts(instantiations, key), typeList))

\* translateExpr on a call of a generic function: translateFunctionInstantiation.
\* inferred: the type arguments come from info.Inferred, not from the call.
translateFunctionInstantiation(key, typeList, inferred, ok) ==
    /\ ~err
    /\ UNCHANGED <<rvars, cvars, fvars, xvars>>
    /\ Len(log) < MaxCalls
    /\ FunctionSite(key, typeList, inferred, ok)

\* translateTypeInstantiation after a miss, r being the outcome of
\* instantiateTypeDecl: the record is appended to the list read before it.
TypeMiss(r, typ, ta, insts) ==
    IF r.err THEN RequestFailed("type", "", typ, ta, insts)
    ELSE /\ heap' = r.heap
         /\ typeInstantiations' =
               PutInsts(r.ti, typ,
                        Append(insts, [types |-> ta.types, decl |-> r.ident,
                                       typ |-> r.typ]))
         /\ newDecls' = r.newDecls
         /\ nextIdent' = r.nextIdent
         /\ UNCHANGED <<instantiations, err>>
         /\ log' = Append(log, Entry("type", "", typ, ta, FALSE, FALSE, "ident",
                                     r.ident, r.typ, Len(insts), Len(insts) + 1))

\* The scan of translateTypeInstantiation yielded i.
TypeRequest(typ, typeList, ta, ok, insts, i) ==
    IF i # 0
    THEN RequestHit("type", "", typ, ta, "ident", insts, i)
    ELSE TypeMiss(instantiateTypeDecl(heap, typeInstantiations, newDecls,
                                      nextIdent, typ, typeList, ok),
                  typ, ta, insts)

\* The body of translateTypeInstantiation on the call of typ with typeList:
\* the scan of t.typeInstantiations[typ], then the hit or the miss.
TypeSite(typ, typeList, ok) ==
    TypeRequest(typ, typeList, TypeArgsFor(typeList, heap[typ].tparams), ok,
                Insts(typeInstantiations, typ),
                FindInst(heap, Insts(typeInstantiations, typ), typeList))

\* translateExpr on a call of a generic named type: translateTypeInstantiation.
translateTypeInstantiation(typ, typeList, ok) ==
    /\ ~err
    /\ UNCHANGED <<rvars, cvars, fvars, xvars>>
    /\ Len(log) < MaxCalls
    /\ TypeSite(typ, typeList, ok)

\* The substitution r of typ is the session's next state.
Substituted(r, ta, typ, insts) ==
    /\ heap' = r.heap
    /\ typeInstantiations' = r.ti
    /\ UNCHANGED <<instantiations, newDecls, err, nextIdent>>
    /\ log' = Append(log, Entry("subst", "", typ, ta,
                                FindInst(heap, insts, ta.types) # 0, FALSE, "",
                                0, r.res, Len(insts), Len(Insts(r.ti, typ))))

\* The synthesizer substitutes the type of an expression it copies:
\* t.instantiateType(ta, typ).
SubstituteType(ta, typ) ==
    /\ ~err
    /\ UNCHANGED <<rvars, cvars, fvars, xvars>>
    /\ Len(log) < MaxCalls
    /\ Substituted(instantiateType(heap, typeInstantiations, ta, typ), ta, typ,
                   Insts(typeInstantiations, typ))

\* The expression types the synthesizer substitutes while it copies the body
\* of a generic function or type of the file.
SessionTypes == {A("G"), A("G_T"), A("L"), A("T"), A("structTagged"), A("sigVar")}

Next ==
    \/ \E key \in GenericFuncs, typeList \in TypeLists, inferred \in BOOLEAN, ok \in BOOLEAN :
          translateFunctionInstantiation(key, typeList, inferred, ok)
    \/ \E typ \in GenericTypes, typeList \in TypeLists, ok \in BOOLEAN :
          translateTypeInstantiation(typ, typeList, ok)
    \/ \E ta \in TAs, typ \in SessionTypes : SubstituteType(ta, typ)

Spec == Init /\ [][Next]_vars

\* The substitution engine alone, on every shape of the universe.
SubstTypes == Types0 \ {A("string"), A("sliceInt2"), A("tupN"), A("Stringer")}

NextSubst == \E ta \in TAs, typ \in SubstTypes : SubstituteType(ta, typ)

SpecSubst == Init /\ [][NextSubst]_vars

\* tpkg.Scope().Lookup(name).Type(): the generic type declared under the
\* name of the instantiated type typ, 0 if the scope has none (a panic).
ScopeLookup(h, typ) ==
    IF \E g \in GenericTypes : Heap0[g].name = h[typ].name
    THEN CHOOSE g \in GenericTypes : Heap0[g].name = h[typ].name
    ELSE 0

\* The outcome of lookupInstantiatedType when its scan yielded record i of
\* insts: the panic "did not find instantiation" (i = 0), the dereference of
\* a nil inst.decl, or a new named type under the name of inst.decl.
Looked(typ, insts, i) ==
    /\ UNCHANGED <<typeInstantiations, instantiations, newDecls, err, nextIdent>>
    /\ heap' = IF i # 0 /\ insts[i].decl # 0
               THEN Append(heap, [heap[typ] EXCEPT !.obj = Len(heap) + 1])
               ELSE heap
    /\ log' = Append(log, Entry("lookup", "", typ,
                                [types |-> heap[typ].targs, toTyp |-> <<>>],
                                i # 0, i = 0 \/ insts[i].decl = 0, "",
                                IF i = 0 THEN 0 ELSE insts[i].decl,
                                IF i # 0 /\ insts[i].decl # 0 THEN Len(heap) + 1 ELSE 0,
                                Len(insts), Len(insts)))

\* translator.lookupInstantiatedType(typ), called by instantiationTypes on an
\* inferred type argument that is an instantiated named type.
lookupInstantiatedType(typ) ==
    /\ ~err
    /\ UNCHANGED <<rvars, cvars, fvars, xvars>>
    /\ Len(log) < MaxCalls
    /\ heap[typ].kind = "Named"
    /\ Len(heap[typ].targs) > 0
    /\ ScopeLookup(heap, typ) # 0
    /\ Looked(typ, Insts(typeInstantiations, ScopeLookup(heap, typ)),
              FindInst(heap, Insts(typeInstantiations, ScopeLookup(heap, typ)),
                       heap[typ].targs))

\* The session of a file in which G(int) was inferred as a type argument:
\* the type checker left the instantiated type in info.Inferred.
InferredTypes ==
    << [kind |-> "Named", obj |-> A("G"), name |-> "G",
        underlying |-> A("structTagged"), methods |-> <<A("Len")>>,
        targs |-> <<A("int")>>, tparams |-> <<>>] >>
InitLookup ==
    /\ heap = Heap0 \o InferredTypes
    /\ typeInstantiations = <<>>
    /\ instantiations = [k \in {} |-> <<>>]
    /\ newDecls = <<>>
    /\ err = FALSE
    /\ nextIdent = 0
    /\ log = <<>>
    /\ NoChecker /\ NoTypeParams /\ NoFile /\ NoOperand

NextLookup ==
    \/ Next
    \/ \E typ \in 1..Len(heap) : lookupInstantiatedType(typ)

SpecLookup == InitLookup /\ [][NextLookup]_vars

----------------------------------------------------------------------------
(* rewriteFile, rewriteAST and translator.translate on one file.           *)

\* A call expression that instantiates a generic function (op = "func", key)
\* or a generic named type (op = "type", typ) with the type list types.  ref
\* is the identifier the expression has been replaced with (*pe), 0 while it
\* is still the call.
Site(op, key, typ, types, inferred) ==
    [op |-> op, key |-> key, typ |-> typ, types |-> types,
     inferred |-> inferred, ref |-> 0]

\* An import spec: its name ("" when it has none) and its path literal, the
\* path between the quote characters q: the double quote, or the back quote
\* of a raw string literal, written ^ here.
ImportSpec(name, q, path) == [name |-> name, q |-> q, path |-> path]

\* A declaration of the file.  kind "func": a declaration translate keeps
\* and walks (a function, type or value that is not parameterized);
\* "generic": a parameterized function or type; "contract"; "import"; and
\* "type": a type declaration group, specs its type specs, sites the sites
\* of the specs that are not parameterized; and what rewriteAST appends:
\* "importable" and "ref".  id is the identifier of
\* a generated declaration, 0 for a declaration of the source.
Decl(kind, id, sites, specs) == [kind |-> kind, id |-> id, sites |-> sites, specs |-> specs]

\* The instantiation sites in the body of each generic entity of the file:
\*   func F(type T)()    { H(T, string)() }
\*   func H(type T, U)() { F(T)() }
\*   type G(type T) struct { x T; y int }, with a method that uses L(T)
\*   type L(type T) struct { v T; next *L(T) }
BodySites(op, key, typ) ==
    CASE op = "func" /\ key = "F" ->
            << Site("func", "H", 0, <<A("T"), A("string")>>, FALSE) >>
      [] op = "func" /\ key = "H" ->
            << Site("func", "F", 0, <<A("T")>>, FALSE) >>
      [] op = "type" /\ typ = A("G") ->
            << Site("type", "", A("L"), <<A("T")>>, FALSE) >>
      [] op = "type" /\ typ = A("L") ->
            << Site("type", "", A("L"), <<A("T")>>, FALSE) >>
      [] OTHER -> <<>>

\* The copy of the sites of a generic body under the type arguments ta: the
\* type of each argument expression is substituted.
instantiateSites(ta, sites) ==
    [k \in 1..Len(sites) |->
        [sites[k] EXCEPT !.types = [n \in 1..Len(sites[k].types) |->
                                       TypeParamResult(ta, sites[k].types[n])]]]

\* A spec of a type declaration group: its name, and whether it has type
\* parameters (ts.TParams != nil).
TypeSpec(name, tparams) == [name |-> name, tparams |-> tparams]

\* isParameterizedTypeDecl reports whether s is a parameterized type.
isParameterizedTypeDecl(s) == s.tparams

\* case token.TYPE keeps every spec of the group.
allSpecs(d) == d

\* case token.TYPE: newSpecs holds the specs of the group that are not
\* parameterized, and decl.Specs = newSpecs.
newSpecs(d) ==
    IF d.kind = "type"
    THEN [d EXCEPT !.specs = SelectSeq(@, LAMBDA s : ~isParameterizedTypeDecl(s))]
    ELSE d

\* isParameterizedFuncDecl / isParameterizedTypeDecl and the contract case of
\* translate: the declarations translate drops.  A type declaration group
\* (kind "type") is dropped when newSpecs is empty.
Dropped(d) ==
    \/ d.kind \in {"generic", "contract"}
    \/ d.kind = "type" /\ newSpecs(d).specs = <<>>

\* translateExpr reached the call expression s: case *ast.CallExpr.
CallExpr(s, ok) ==
    IF s.op = "func" THEN FunctionSite(s.key, s.types, s.inferred, ok)
    ELSE TypeSite(s.typ, s.types, ok)

\* The site after the handler that made the log entry e: *pe = the
\* identifier, unless the synthesis failed.
Rewritten(s, e) == IF e.failed THEN s ELSE [s EXCEPT !.ref = e.ident]

\* if t.err != nil { return }
EarlyReturn(e) == e

\* The walk of translate over declsToDo[i] reaches its j-th instantiation
\* site.  With t.err set, translateFuncDecl, translateStmt and translateExpr
\* return at once.
translateExpr ==
    /\ fpc.at = "translate"
    /\ fpc.i <= Len(declsToDo)
    /\ ~Dropped(declsToDo[fpc.i])
    /\ fpc.j <= Len(declsToDo[fpc.i].sites)
    /\ IF EarlyReturn(err)
       THEN UNCHANGED <<tvars, declsToDo, bodies>>
       ELSE /\ \E ok \in BOOLEAN : CallExpr(declsToDo[fpc.i].sites[fpc.j], ok)
            /\ declsToDo' =
                  [declsToDo EXCEPT ![fpc.i].sites[fpc.j] = Rewritten(@, log'[Len(log')])]
            /\ bodies' =
                  IF nextIdent' = nextIdent THEN bodies
                  ELSE Append(bodies,
                              instantiateSites(log'[Len(log')].ta,
                                               BodySites(declsToDo[fpc.i].sites[fpc.j].op,
                                                         declsToDo[fpc.i].sites[fpc.j].key,
                                                         declsToDo[fpc.i].sites[fpc.j].typ)))
    /\ fpc' = [fpc EXCEPT !.j = @ + 1]
    /\ UNCHANGED <<rewriteArgs, keptDecls, fileDecls, outFile, rvars, cvars, xvars>>

\* The walk over declsToDo[i] is over: newDecls = append(newDecls, decl),
\* unless the declaration is parameterized or a contract.
translateDecl ==
    /\ fpc.at = "translate"
    /\ fpc.i <= Len(declsToDo)
    /\ Dropped(declsToDo[fpc.i]) \/ fpc.j > Len(declsToDo[fpc.i].sites)
    /\ keptDecls' = IF Dropped(declsToDo[fpc.i]) THEN keptDecls
                    ELSE Append(keptDecls, newSpecs(declsToDo[fpc.i]))
    /\ fpc' = [fpc EXCEPT !.i = @ + 1, !.j = 1]
    /\ UNCHANGED <<rewriteArgs, declsToDo, fileDecls, bodies, outFile, tvars, rvars, cvars, xvars>>

\* The generated declarations behind the identifiers queued in t.newDecls.
Queued(decls, b) == [k \in 1..Len(decls) |-> Decl("func", decls[k], b[decls[k]], <<>>)]

\* The end of one pass of translate over declsToDo.
nextPassOnly(fd, kept, decls, b) ==
    [fileDecls |-> fd \o kept, declsToDo |-> <<>>, newDecls |-> <<>>]

nextPass(fd, kept, decls, b) ==
    [fileDecls |-> fd \o kept, declsToDo |-> Queued(decls, b), newDecls |-> <<>>]

\* file.Decls = append(file.Decls, newDecls...); declsToDo = t.newDecls;
\* t.newDecls = nil; and translate returns when declsToDo is empty.
EndPass ==
    /\ fpc.at = "translate"
    /\ fpc.i > Len(declsToDo)
    /\ fileDecls' = nextPass(fileDecls, keptDecls, newDecls, bodies).fileDecls
    /\ declsToDo' = nextPass(fileDecls, keptDecls, newDecls, bodies).declsToDo
    /\ newDecls' = nextPass(fileDecls, keptDecls, newDecls, bodies).newDecls
    /\ keptDecls' = <<>>
    /\ fpc' = [at |-> IF declsToDo' = <<>> THEN "rewriteAST" ELSE "translate",
               i |-> 1, j |-> 1]
    /\ UNCHANGED <<rewriteArgs, bodies, outFile, heap, typeInstantiations,
                   instantiations, err, nextIdent, log, rvars, cvars, xvars>>

\* The import paths there are, in the ascending order of sort.Strings.
SortedPaths == << "^b^", "a", "b", "c" >>

\* importer.imports: the packages each package imports.  m0 and m1 are the
\* packages being translated.
Imported(path) ==
    CASE path = "m1" -> {"c"}
      [] path = "c" -> {"a"}
      [] path = "a" -> {"b"}
      [] OTHER -> {}

RECURSIVE transitiveImports(_)
\* importer.transitiveImports
transitiveImports(path) ==
    Imported(path) \cup UNION {transitiveImports(p) : p \in Imported(path)}

\* strings.TrimPrefix(strings.TrimSuffix(imp.Path.Value, "\""), "\""): only
\* double quotes are trimmed.
TrimQuotes(imp) == IF imp.q = "\"" THEN imp.path ELSE imp.q \o imp.path \o imp.q

RECURSIVE GenSpecs(_)
\* The specs of the import declarations of decls, in order.
GenSpecs(decls) ==
    IF decls = <<>> THEN <<>>
    ELSE (IF Head(decls).kind = "import" THEN Head(decls).specs ELSE <<>>)
         \o GenSpecs(Tail(decls))

RECURSIVE pickUp(_, _)
\* The loop of rewriteAST over the import specs: imps after it.
pickUp(specs, imps) ==
    IF specs = <<>> THEN imps
    ELSE pickUp(Tail(specs),
                IF TrimQuotes(Head(specs)) \in imps THEN imps
                ELSE imps \cup {TrimQuotes(Head(specs))}
                          \cup transitiveImports(TrimQuotes(Head(specs))))

\* sort.Strings(paths), and one spec per path: strconv.Quote(p).
sortedSpecs(imps) ==
    LET paths == SelectSeq(SortedPaths, LAMBDA p : p \in imps)
    IN  [k \in 1..Len(paths) |-> ImportSpec("", "\"", paths[k])]

\* The specs of the one import declaration rewriteAST makes of old, the
\* import specs of the file: the named ones, then the sorted paths.
mergedSpecs(importPath, old) ==
    SelectSeq(old, LAMBDA imp : imp.name # "")
    \o sortedSpecs(pickUp(old, transitiveImports(importPath)))

\* file.Decls after rewriteAST has merged the imports.
mergeImports(importPath, decls) ==
    (IF mergedSpecs(importPath, GenSpecs(decls)) = <<>> THEN <<>>
     ELSE << Decl("import", 0, <<>>, mergedSpecs(importPath, GenSpecs(decls))) >>)
    \o SelectSeq(decls, LAMBDA d : d.kind # "import")

\* if addImportableName: a declaration other packages can refer to.
importable(add, decls) ==
    IF add THEN Append(decls, Decl("importable", 0, <<>>, <<>>)) ELSE decls

\* importer.lookupPackage and importer.ImportFrom find the package.
Importable(path) == path \in {"a", "b", "c"}

RECURSIVE references(_, _)
\* The loop that adds one reference per import spec; it returns the error
\* of importer.ImportFrom.
references(specs, decls) ==
    IF specs = <<>> THEN [decls |-> decls, err |-> FALSE]
    ELSE IF Head(specs).name = "_" THEN references(Tail(specs), decls)
    ELSE IF ~Importable(TrimQuotes(Head(specs))) THEN [decls |-> decls, err |-> TRUE]
    ELSE references(Tail(specs), Append(decls, Decl("ref", 0, <<>>, << Head(specs) >>)))

\* What rewriteAST returns if it ends with return nil instead of return t.err.
returnedNil(r, e) == IF r.err THEN "import" ELSE "nil"

\* What rewriteAST returns, r being the outcome of the reference loop.
returned(r, e) == IF r.err THEN "import" ELSE IF e THEN "synthesis" ELSE "nil"

\* rewriteAST after t.translate(file).
rewriteAST ==
    /\ fpc.at = "rewriteAST"
    /\ LET decls == importable(rewriteArgs.addImportableName,
                               mergeImports(rewriteArgs.importPath, fileDecls))
       IN  /\ fileDecls' = references(GenSpecs(decls), decls).decls
           /\ outFile' = [outFile EXCEPT
                            !.astErr = returned(references(GenSpecs(decls), decls), err)]
    /\ fpc' = [fpc EXCEPT !.at = "rewriteFile"]
    /\ UNCHANGED <<rewriteArgs, declsToDo, keptDecls, bodies, tvars, rvars, cvars, xvars>>

\* rewriteFile after rewriteAST: the error is returned, or the file is
\* created (os.Create may fail) and printed.
rewriteFile ==
    /\ fpc.at = "rewriteFile"
    /\ IF outFile.astErr # "nil"
       THEN outFile' = [outFile EXCEPT !.err = outFile.astErr]
       ELSE \E created \in BOOLEAN :
               outFile' = [outFile EXCEPT !.err = IF created THEN "nil" ELSE "create",
                                          !.created = created,
                                          !.decls = IF created THEN fileDecls ELSE <<>>]
    /\ fpc' = [fpc EXCEPT !.at = "done"]
    /\ UNCHANGED <<rewriteArgs, declsToDo, keptDecls, fileDecls, bodies, tvars, rvars, cvars, xvars>>

\* The instantiation sites of the source file.
Sites0 ==
    { Site("func", "F", 0, <<A("int")>>, FALSE),
      Site("func", "F", 0, <<A("sliceInt2")>>, TRUE),
      Site("func", "H", 0, <<A("int"), A("string")>>, FALSE),
      Site("func", "H", 0, <<A("sliceInt"), A("string")>>, FALSE),
      Site("type", "", A("G"), <<A("int")>>, FALSE),
      Site("type", "", A("L"), <<A("int")>>, FALSE) }

\* The site lists of a declaration with at most n sites.
SiteLists(n) == UNION {[1..m -> Sites0] : m \in 0..n}

\* The source files: an import, a generic declaration and two declarations
\* with instantiation sites.
Files ==
    { << Decl("import", 0, <<>>, << ImportSpec("", "\"", "b") >>),
         Decl("generic", 0, <<>>, <<>>),
         Decl("func", 0, s1, <<>>),
         Decl("func", 0, s2, <<>>) >> : s1 \in SiteLists(2), s2 \in SiteLists(1) }

\* rewriteFile is called on file: rewriteAST makes a translator and
\* translate starts with declsToDo = file.Decls, file.Decls = nil.
InitRewrite(files, paths) ==
    /\ InitSession
    /\ NoChecker
    /\ NoTypeParams
    /\ NoOperand
    /\ rewriteArgs \in [importPath : paths, addImportableName : BOOLEAN]
    /\ declsToDo \in files
    /\ keptDecls = <<>>
    /\ fileDecls = <<>>
    /\ bodies = <<>>
    /\ fpc = [at |-> "translate", i |-> 1, j |-> 1]
    /\ outFile = [astErr |-> "", err |-> "", created |-> FALSE, decls |-> <<>>]

InitFile == InitRewrite(Files, {"m1"})

NextFile == translateExpr \/ translateDecl \/ EndPass \/ rewriteAST \/ rewriteFile

SpecFile == InitFile /\ [][NextFile]_vars

\* rewriteFile runs to its end: the program is sequential and takes its
\* next step whenever it has one.
SpecFileLive == SpecFile /\ WF_vars(NextFile)

\* The specs of a type declaration group: one or two specs, each with or
\* without type parameters.
SpecLists ==
    UNION {[1..m -> {TypeSpec("G", TRUE), TypeSpec("S", FALSE)}] : m \in 1..2}

\* Source files with every form of declaration translate tells apart: an
\* import, a type declaration group, a contract, a function, a generic
\* function and a variable declaration.  Only the specs without type
\* parameters have sites translate walks.
GroupFiles ==
    { << Decl("import", 0, <<>>, << ImportSpec("", "\"", "b") >>),
         Decl("type", 0, s0, specs),
         Decl("contract", 0, <<>>, <<>>),
         Decl("func", 0, s1, <<>>),
         Decl("generic", 0, <<>>, <<>>),
         Decl("func", 0, s2, <<>>) >> :
      specs \in SpecLists, s0 \in SiteLists(1), s1 \in SiteLists(1), s2 \in SiteLists(1) }

InitGroups ==
    /\ InitRewrite(GroupFiles, {"m1"})
    /\ (\A s \in DOMAIN declsToDo[2].specs : declsToDo[2].specs[s].tparams)
          => declsToDo[2].sites = <<>>

SpecGroups == InitGroups /\ [][NextFile]_vars

\* The import specs of the source files.
ImportSpecs0 ==
    { ImportSpec("", "\"", "a"), ImportSpec("", "\"", "b"), ImportSpec("", "\"", "c"),
      ImportSpec("m", "\"", "b"), ImportSpec("_", "\"", "c"), ImportSpec("", "^", "b") }

\* The import declarations of a source file: at most two, of one or two specs.
ImportDecls ==
    LET gens == {Decl("import", 0, <<>>, specs) :
                    specs \in [1..1 -> ImportSpecs0] \cup [1..2 -> ImportSpecs0]}
    IN  {<<>>} \cup [1..1 -> gens] \cup [1..2 -> gens]

\* Source files without instantiation sites.
ImportFiles == {imps \o << Decl("func", 0, <<>>, <<>>) >> : imps \in ImportDecls}

InitImports == InitRewrite(ImportFiles, {"m0", "m1"})

NextImports == translateDecl \/ EndPass \/ rewriteAST \/ rewriteFile

SpecImports == InitImports /\ [][NextImports]_vars

----------------------------------------------------------------------------

(* Observers used by the properties.                                       *)

\* The entry of the call that led to the current state.
Last == log[Len(log)]

IsRequest(e) == e.op \in {"func", "type"}

\* Two requests name the same generic entity.
SameEntity(e, f) == e.op = f.op /\ e.key = f.key /\ e.typ = f.typ

\* What instantiateType(ta, typ) returns in the current state for a type list
\* on which it has already been asked: the type of the first matching record.
MemoTyp(typ, types) ==
    LET insts == Insts(typeInstantiations, typ)
    IN  insts[FindInst(heap, insts, types)].typ

\* The substitution changes typ.
Changed(typ, types) == MemoTyp(typ, types) # typ

RECURSIVE MapsSome(_, _, _)
\* Some type-parameter reference contained in the shape typ is mapped by ta.
MapsSome(h, ta, typ) ==
    IF typ = 0 THEN FALSE
    ELSE LET o == h[typ]
         IN  CASE o.kind = "TypeParam" -> TaHas(ta, typ)
               [] o.kind \in {"Array", "Slice", "Pointer", "Chan"} -> MapsSome(h, ta, o.elem)
               [] o.kind = "Map" -> MapsSome(h, ta, o.key) \/ MapsSome(h, ta, o.elem)
               [] o.kind = "Struct" ->
                    \E i \in 1..Len(o.fields) : MapsSome(h, ta, o.fields[i].typ)
               [] o.kind = "Tuple" ->
                    \E i \in 1..Len(o.vars) : MapsSome(h, ta, o.vars[i].typ)
               [] o.kind = "Signature" ->
                    MapsSome(h, ta, o.params) \/ MapsSome(h, ta, o.results)
               [] o.kind = "Interface" ->
                    \/ \E i \in 1..Len(o.methods) : MapsSome(h, ta, h[o.methods[i]].typ)
                    \/ \E i \in 1..Len(o.embeddeds) : MapsSome(h, ta, o.embeddeds[i])
               [] o.kind = "Named" ->
                    \E i \in 1..Len(o.targs) : MapsSome(h, ta, o.targs[i])
               [] OTHER -> FALSE

\* The last call substituted into a shape of the given kinds.
SubstInto(kinds) ==
    /\ Len(log) > 0
    /\ Last.op = "subst"
    /\ heap[Last.typ].kind \in kinds

----------------------------------------------------------------------------
(* Properties.                                                             *)

\* C1: two requests on the same generic entity with pairwise identical type
\* lists run synthesis once only: the later one is a cache hit that appends no
\* record, queues no declaration, makes no identifier, and is rewritten to the
\* identifier the earlier one was rewritten to.
C1_SecondRequestIsHit ==
    \A i, j \in 1..Len(log) :
        (/\ i < j
         /\ IsRequest(log[i]) /\ SameEntity(log[i], log[j])
         /\ IdenticalLists(heap, log[i].types, log[j].types))
        => /\ log[j].hit
           /\ ~log[j].failed
           /\ log[j].recsAfter = log[j].recsBefore
           /\ log[j].declsAfter = log[j].declsBefore
           /\ log[j].ident = log[i].ident

\* C1 witness: a function synthesized for one type list, then requested again
\* with an identical list made of another type value.
C1_Witness ==
    \E i, j \in 1..Len(log) :
        /\ i < j
        /\ log[i].op = "func" /\ SameEntity(log[i], log[j])
        /\ ~log[i].hit /\ ~log[i].failed /\ log[i].ident # 0
        /\ log[i].types # log[j].types
        /\ IdenticalLists(heap, log[i].types, log[j].types)
        /\ log[j].hit

\* No two records of one list have pairwise identical type lists.
NoDuplicates(list) ==
    \A i, j \in 1..Len(list) :
        i < j => ~IdenticalLists(heap, list[i].types, list[j].types)

\* C2: in every state no record list of t.instantiations or
\* t.typeInstantiations holds two records with pairwise identical type lists.
C2_NoDuplicateRecords ==
    /\ \A key \in DOMAIN instantiations : NoDuplicates(instantiations[key])
    /\ \A typ \in DOMAIN typeInstantiations : NoDuplicates(typeInstantiations[typ])

\* C2 witness: one type's list holds a record written by instantiateType and
\* a record written by translateTypeInstantiation.
C2_Witness ==
    \E typ \in DOMAIN typeInstantiations :
        /\ \E i \in 1..Len(typeInstantiations[typ]) : typeInstantiations[typ][i].decl = 0
        /\ \E i \in 1..Len(typeInstantiations[typ]) : typeInstantiations[typ][i].decl # 0

\* C3: a request on a generic function whose type list is identical to that of
\* no earlier request on it is a cache miss; when its synthesis succeeds it
\* appends one record, queues one declaration, and is rewritten to an
\* identifier that no earlier request was rewritten to.
C3_DistinctListsMiss ==
    \A j \in 1..Len(log) :
        (/\ log[j].op = "func"
         /\ \A i \in 1..(j - 1) :
               SameEntity(log[i], log[j])
               => ~IdenticalLists(heap, log[i].types, log[j].types))
        => /\ ~log[j].hit
           /\ ~log[j].failed =>
                 /\ log[j].ident # 0
                 /\ log[j].recsAfter = log[j].recsBefore + 1
                 /\ log[j].declsAfter = log[j].declsBefore + 1
                 /\ \A i \in 1..(j - 1) : log[i].ident # log[j].ident

\* C3 witness: one function requested with two lists that are not identical,
\* leaving two records and two queued declarations.
C3_Witness ==
    /\ Len(log) = 2
    /\ log[1].op = "func" /\ SameEntity(log[1], log[2])
    /\ ~IdenticalLists(heap, log[1].types, log[2].types)
    /\ Len(instantiations[log[1].key]) = 2
    /\ Len(newDecls) = 2
    /\ log[1].ident # log[2].ident

\* C4: if the type-argument list maps no type-parameter reference contained
\* in the shape, instantiateType returns the input value itself.
C4_IdentityPreserved ==
    (/\ Len(log) > 0
     /\ Last.op = "subst"
     /\ ~MapsSome(heap, Last.ta, Last.typ))
    => Last.res = Last.typ

\* C5: an array whose element type is changed by the substitution is rebuilt
\* with the substituted element type and the original length.
C5_ArrayRebuilt ==
    (SubstInto({"Array"}) /\ Changed(heap[Last.typ].elem, Last.types))
    => /\ Last.res # Last.typ
       /\ heap[Last.res].kind = "Array"
       /\ heap[Last.res].elem = MemoTyp(heap[Last.typ].elem, Last.types)
       /\ heap[Last.res].len = heap[Last.typ].len

\* C6: a slice, pointer, map or channel whose element (for maps: key or
\* value) is changed by the substitution is rebuilt as a shape of the same
\* kind around exactly the substituted element, key and value; a channel
\* keeps its direction.
C6_ElementShapesRebuilt ==
    SubstInto({"Slice", "Pointer", "Map", "Chan"}) =>
        LET o == heap[Last.typ]
            r == heap[Last.res]
            keyChanged == o.kind = "Map" /\ Changed(o.key, Last.types)
        IN  (Changed(o.elem, Last.types) \/ keyChanged)
            => /\ Last.res # Last.typ
               /\ r.kind = o.kind
               /\ r.elem = MemoTyp(o.elem, Last.types)
               /\ o.kind = "Map" => r.key = MemoTyp(o.key, Last.types)
               /\ o.kind = "Chan" => r.dir = o.dir

\* C6 witness: a map of which only the value changed was rebuilt.
C6_Witness ==
    /\ SubstInto({"Map"})
    /\ ~Changed(heap[Last.typ].key, Last.types)
    /\ Changed(heap[Last.typ].elem, Last.types)
    /\ Last.res # Last.typ

\* C7: a struct of which some field type changes is rebuilt with the same
\* fields in the same order, each with its name and the substituted type; the
\* result has no tag table when no field of the original has a tag, and
\* otherwise has at every position the original's tag of that position.
C7_StructRebuilt ==
    SubstInto({"Struct"}) =>
        LET o == heap[Last.typ]
            r == heap[Last.res]
            n == Len(o.fields)
        IN  (\E i \in 1..n : Changed(o.fields[i].typ, Last.types))
            => /\ Last.res # Last.typ
               /\ r.kind = "Struct"
               /\ Len(r.fields) = n
               /\ \A i \in 1..n :
                     /\ r.fields[i].name = o.fields[i].name
                     /\ r.fields[i].typ = MemoTyp(o.fields[i].typ, Last.types)
               /\ IF \A i \in 1..n : Tag(o, i) = ""
                  THEN r.tags = <<>>
                  ELSE /\ r.tags # <<>>
                       /\ \A i \in 1..n : Tag(r, i) = Tag(o, i)

\* C7 witness: a struct with a tagged field was rebuilt.
C7_Witness ==
    /\ SubstInto({"Struct"})
    /\ Last.res # Last.typ
    /\ \E i \in 1..Len(heap[Last.typ].fields) : Tag(heap[Last.typ], i) # ""

\* Some variable of the tuple is changed by the substitution.
TupleChanged(tuple, types) ==
    /\ tuple # 0
    /\ \E i \in 1..Len(heap[tuple].vars) : Changed(heap[tuple].vars[i].typ, types)

\* new is what substituting into the tuple old yields: old itself when no
\* variable changed, else a tuple of the same variables, by name and
\* position, with the substituted types.
TupleSubstituted(old, new, types) ==
    IF ~TupleChanged(old, types) THEN new = old
    ELSE /\ new # old
         /\ heap[new].kind = "Tuple"
         /\ Len(heap[new].vars) = Len(heap[old].vars)
         /\ \A i \in 1..Len(heap[old].vars) :
               /\ heap[new].vars[i].name = heap[old].vars[i].name
               /\ heap[new].vars[i].typ = MemoTyp(heap[old].vars[i].typ, types)

\* C8: a signature is rebuilt exactly when its parameter tuple or its result
\* tuple changed; each tuple is substituted on its own, and the rebuilt
\* signature has the original's type-parameter list, receiver and variadic
\* flag.
C8_SignatureRebuilt ==
    SubstInto({"Signature"}) =>
        LET o == heap[Last.typ]
            r == heap[Last.res]
        IN  IF TupleChanged(o.params, Last.types) \/ TupleChanged(o.results, Last.types)
            THEN /\ Last.res # Last.typ
                 /\ r.kind = "Signature"
                 /\ TupleSubstituted(o.params, r.params, Last.types)
                 /\ TupleSubstituted(o.results, r.results, Last.types)
                 /\ r.tparams = o.tparams
                 /\ r.recv = o.recv
                 /\ r.variadic = o.variadic
            ELSE Last.res = Last.typ

\* C8 witness: a variadic signature with its own type parameters and a nil
\* result tuple was rebuilt.
C8_Witness ==
    /\ SubstInto({"Signature"})
    /\ Last.res # Last.typ
    /\ heap[Last.typ].tparams # <<>>
    /\ heap[Last.typ].variadic
    /\ heap[Last.res].results = 0

\* C9: an interface is rebuilt exactly when the signature of an explicit
\* method or an embedded type changed; in the rebuilt interface a method whose
\* signature did not change is the original method object, a changed one has
\* the original's name and the substituted signature, and the embedded types
\* are the substituted ones in the original order.
C9_InterfaceRebuilt ==
    SubstInto({"Interface"}) =>
        LET o == heap[Last.typ]
            r == heap[Last.res]
            mChanged(i) == Changed(heap[o.methods[i]].typ, Last.types)
            eChanged(i) == Changed(o.embeddeds[i], Last.types)
        IN  IF \/ \E i \in 1..Len(o.methods) : mChanged(i)
               \/ \E i \in 1..Len(o.embeddeds) : eChanged(i)
            THEN /\ Last.res # Last.typ
                 /\ r.kind = "Interface"
                 /\ Len(r.methods) = Len(o.methods)
                 /\ \A i \in 1..Len(o.methods) :
                       IF mChanged(i)
                       THEN /\ r.methods[i] # o.methods[i]
                            /\ heap[r.methods[i]].name = heap[o.methods[i]].name
                            /\ heap[r.methods[i]].typ
                                 = MemoTyp(heap[o.methods[i]].typ, Last.types)
                       ELSE r.methods[i] = o.methods[i]
                 /\ Len(r.embeddeds) = Len(o.embeddeds)
                 /\ \A i \in 1..Len(o.embeddeds) :
                       r.embeddeds[i] = MemoTyp(o.embeddeds[i], Last.types)
            ELSE Last.res = Last.typ

\* C9 witness: an interface was rebuilt with one method replaced and one kept.
C9_Witness ==
    /\ SubstInto({"Interface"})
    /\ Last.res # Last.typ
    /\ \E i \in 1..Len(heap[Last.typ].methods) :
          heap[Last.res].methods[i] = heap[Last.typ].methods[i]
    /\ \E i \in 1..Len(heap[Last.typ].methods) :
          heap[Last.res].methods[i] # heap[Last.typ].methods[i]

\* C10: a named type with type arguments of which one changes yields a new
\* named type value with the substituted arguments and the original's
\* methods, name and underlying type, and the original value is as it was; a
\* named type of which no argument changes, or that has none, is returned
\* itself.
C10_NamedRetagged ==
    SubstInto({"Named"}) =>
        LET o == heap[Last.typ]
            r == heap[Last.res]
        IN  IF \E i \in 1..Len(o.targs) : Changed(o.targs[i], Last.types)
            THEN /\ Last.res # Last.typ
                 /\ r.kind = "Named"
                 /\ Len(r.targs) = Len(o.targs)
                 /\ \A i \in 1..Len(o.targs) :
                       r.targs[i] = MemoTyp(o.targs[i], Last.types)
                 /\ r.methods = o.methods
                 /\ r.name = o.name
                 /\ r.underlying = o.underlying
                 /\ o = Heap0[Last.typ]
            ELSE Last.res = Last.typ

\* C10 witness: a named type with methods and two type arguments, of which
\* one changed, was re-tagged.
C10_Witness ==
    /\ SubstInto({"Named"})
    /\ Last.res # Last.typ
    /\ heap[Last.typ].methods # <<>>
    /\ \E i \in 1..Len(heap[Last.typ].targs) :
          heap[Last.res].targs[i] = heap[Last.typ].targs[i]

\* The call of log entry e ran doInstantiateType on a type-parameter
\* reference: no record of the reference held an identical type list.
RanOnTypeParam(e) ==
    /\ e.op = "subst"
    /\ ~e.hit
    /\ Heap0[e.typ].kind = "TypeParam"

HeapAfter(j) == IF j = Len(log) THEN Len(heap) ELSE log[j + 1].heapBefore

----------------------------------------------------------------------------
(* The type checker's declaration resolver (golib/types/decl.go).          *)
(*                                                                         *)
(* A package is a set of objects, each with one declaration.  A            *)
(* declaration refers to at most one other object of the package; what     *)
(* lies between objDecl and that reference (Checker.typ, Checker.expr,     *)
(* Checker.ident) is not in decl.go and is modelled by the steps Refer and *)
(* Declared below.                                                         *)

\* obj.color_: white, black, and grey + the object's index in check.objPath.
white == 0
black == 1
grey == 2

\* A declaration as collected in check.objMap:
\*   kind  - "Const", "Var", "Alias" (type A = ...), "Def" (type A ...), "Func"
\*   typed - a variable declared with a (basic) type
\*   wraps - the composite type expressions around the reference of a type
\*           declaration, outermost first: type A struct{ f *B } has
\*           <<"Struct", "Pointer">>
\*   ref   - the object the declaration refers to, "" for none
\*   pos   - obj.Pos()
DeclInfo(kind, typed, wraps, ref, pos) ==
    [kind |-> kind, typed |-> typed, wraps |-> wraps, ref |-> ref, pos |-> pos]

Pos(obj) == pkg[obj].pos

\* One error reported through check.errorf.
Diag(obj, msg) == [pos |-> Pos(obj), msg |-> msg, name |-> obj]

RECURSIVE firstInSrcLoop(_, _, _)
\* The loop of firstInSrc over path[i..], fst being the index found so far.
firstInSrcLoop(path, i, fst) ==
    IF i > Len(path) THEN fst
    ELSE firstInSrcLoop(path, i + 1,
                        IF Pos(path[i]) < Pos(path[fst]) THEN i ELSE fst)

RECURSIVE firstInSrcLoopLE(_, _, _)
\* The loop of firstInSrc with <= for <.
firstInSrcLoopLE(path, i, fst) ==
    IF i > Len(path) THEN fst
    ELSE firstInSrcLoopLE(path, i + 1,
                          IF Pos(path[i]) <= Pos(path[fst]) THEN i ELSE fst)

\* firstInSrc preferring the last of the objects with the smallest position.
firstInSrcLE(path) == firstInSrcLoopLE(path, 2, 1)

\* firstInSrc: the index of the object with the smallest source position.
firstInSrc(path) == firstInSrcLoop(path, 2, 1)

RECURSIVE refersTo(_, _, _)
\* The loop of cycleError: n more "refers to" lines starting with cycle[i],
\* then the closing line.
refersTo(cycle, i, n) ==
    IF n = 0 THEN << Diag(cycle[i], "end") >>
    ELSE << Diag(cycle[i], "refers to") >>
         \o refersTo(cycle, IF i + 1 > Len(cycle) THEN 1 ELSE i + 1, n - 1)

\* The lines of cycleError after firstInSrc yielded i.
cycleErrorAt(cycle, i) ==
    << Diag(cycle[i], "illegal cycle") >> \o refersTo(cycle, i, Len(cycle))

\* Checker.cycleError: the errors it reports for cycle.
cycleError(cycle) == cycleErrorAt(cycle, firstInSrc(cycle))

\* Type values of the checker are pointers.  Apart from nil, Typ[Invalid] and
\* a basic type they are made by the declarations: the *Named of a defined
\* type, the *Signature of a function, and ExprT(obj, d), the composite type
\* made for the d-th type expression (outermost first) of obj's declaration.
NilT == [k |-> "nil", o |-> "", d |-> 0]
InvalidT == [k |-> "invalid", o |-> "", d |-> 0]
BasicT == [k |-> "basic", o |-> "", d |-> 0]
SigT(obj) == [k |-> "sig", o |-> obj, d |-> 0]
NamedT(obj) == [k |-> "named", o |-> obj, d |-> 0]
ExprT(obj, d) == [k |-> "expr", o |-> obj, d |-> d]

\* The kind of type a type value points to.
KindOf(t) == IF t.k = "expr" THEN pkg[t.o].wraps[t.d] ELSE t.k

\* The element (field, embedded, base, value, parameter) type of a composite
\* type, lt being the types the declarations' references resolved to.
ElemOf(lt, t) ==
    IF t.d < Len(pkg[t.o].wraps) THEN ExprT(t.o, t.d + 1) ELSE lt[t.o]

IsTypeName(obj) == pkg[obj].kind \in {"Alias", "Def"}
IsValue(obj) == pkg[obj].kind \in {"Const", "Var"}

\* A *Named before typeDecl made it, and as typeDecl makes it.
NoNamed == [made |-> FALSE, orig |-> NilT, underlying |-> NilT, info |-> "unknown"]
NewNamed == [made |-> TRUE, orig |-> NilT, underlying |-> NilT, info |-> "unknown"]

\* def.setUnderlying(typ), def = "" being the nil *Named.
setUnderlying(nm, def, typ) ==
    IF def = "" THEN nm ELSE [nm EXCEPT ![def].underlying = typ]

\* The end of Named.Under without the loop that sets n.underlying = u.
UnderDoneUnset(nm, seen, u, errs) == [named |-> nm, u |-> u, errs |-> errs]

\* The outcome of Named.Under: the underlying type u written to every type
\* of seen, and the errors reported.
UnderDone(nm, seen, u, errs) ==
    [named |-> [o \in DOMAIN nm |->
                   IF o \in DOMAIN seen THEN [nm[o] EXCEPT !.underlying = u]
                   ELSE nm[o]],
     u |-> u, errs |-> errs]

RECURSIVE UnderLoop(_, _, _, _)
\* The loop of Named.Under following the forward chain at n.
UnderLoop(nm, n, seen, path) ==
    IF nm[n].underlying = NilT
    THEN UnderDone(nm, seen, InvalidT, <<>>)
    ELSE IF nm[n].underlying.k # "named"
    THEN UnderDone(nm, seen, nm[n].underlying, <<>>)
    ELSE IF nm[n].underlying.o \in DOMAIN seen \/ nm[n].underlying.o = n
    THEN UnderDone(nm, seen @@ (n :> Cardinality(DOMAIN seen)), InvalidT,
                   cycleError(SubSeq(Append(path, n),
                                     (IF nm[n].underlying.o = n
                                      THEN Cardinality(DOMAIN seen)
                                      ELSE seen[nm[n].underlying.o]) + 1,
                                     Len(path) + 1)))
    ELSE UnderLoop(nm, nm[n].underlying.o,
                   (n :> Cardinality(DOMAIN seen)) @@ seen, Append(path, n))

\* Named.Under of the defined type n0 (which has a checker).
Under(nm, n0) ==
    IF nm[n0].underlying = NilT
    THEN [named |-> nm, u |-> InvalidT, errs |-> <<>>]
    ELSE IF nm[n0].underlying.k # "named"
    THEN [named |-> nm, u |-> nm[n0].underlying, errs |-> <<>>]
    ELSE UnderLoop(nm, nm[n0].underlying.o, (n0 :> 0), << n0 >>)

\* Named.Under of n0, check telling whether n0.check != nil: without a
\* checker a cycle is not reported.
UnderOf(nm, n0, check) ==
    IF check THEN Under(nm, n0) ELSE [Under(nm, n0) EXCEPT !.errs = <<>>]

\* The outcome of a validType call: the *Named written, the errors reported,
\* the typeInfo returned, and whether it panicked.
ValidOut(nm, errs, res) == [named |-> nm, errs |-> errs, res |-> res, panic |-> FALSE]

\* case *Struct, case *Interface: invalid if the field (embedded) type is
\* invalid, valid otherwise.
FieldsDone(r) == IF r.res = "invalid" THEN r ELSE [r EXCEPT !.res = "valid"]

\* case unknown: t.info = check.validType(t.orig, append(path, t.obj)).
NamedDone(r, obj) == [r EXCEPT !.named[obj].info = r.res]

\* The first index of obj in path, 0 if there is none.
IndexIn(path, obj) ==
    IF \E i \in 1..Len(path) : path[i] = obj
    THEN CHOOSE i \in 1..Len(path) :
            path[i] = obj /\ \A j \in 1..(i - 1) : path[j] # obj
    ELSE 0

\* case marked without the test that ends the traversal: the cycle is
\* reported and the type is left marked.
MarkedCaseNoBreak(nm, obj, path, i) ==
    IF i = 0
    THEN [ValidOut(nm, <<>>, "marked") EXCEPT !.panic = TRUE]
    ELSE ValidOut(nm, cycleError(SubSeq(path, i, Len(path))), "marked")

\* case marked: the cycle path[i..] is reported and the type made invalid;
\* i = 0 is the panic "cycle start not found".
MarkedCase(nm, obj, path, i) ==
    IF i = 0
    THEN [ValidOut(nm, <<>>, "marked") EXCEPT !.panic = TRUE]
    ELSE ValidOut([nm EXCEPT ![obj].info = "invalid", ![obj].underlying = InvalidT],
                  cycleError(SubSeq(path, i, Len(path))), "invalid")

RECURSIVE validType(_, _, _, _)
\* Checker.validType(typ, path), all types being of the checked package.
validType(nm, lt, typ, path) ==
    CASE KindOf(typ) = "Array" -> validType(nm, lt, ElemOf(lt, typ), path)
      [] KindOf(typ) \in {"Struct", "Interface"} ->
           FieldsDone(validType(nm, lt, ElemOf(lt, typ), path))
      [] KindOf(typ) = "named" ->
           IF nm[typ.o].underlying = InvalidT
           THEN ValidOut([nm EXCEPT ![typ.o].info = "invalid"], <<>>, "invalid")
           ELSE IF nm[typ.o].info = "unknown"
           THEN NamedDone(validType([nm EXCEPT ![typ.o].info = "marked"], lt,
                                    nm[typ.o].orig, Append(path, typ.o)),
                          typ.o)
           ELSE IF nm[typ.o].info = "marked"
           THEN MarkedCase(nm, typ.o, path, IndexIn(path, typ.o))
           ELSE ValidOut(nm, <<>>, nm[typ.o].info)
      [] OTHER -> ValidOut(nm, <<>>, "valid")

\* One entry of the checker's observation log: a call of objDecl, or a
\* top-level call of validType.
\*   col  - the colour of obj before the call
\*   typ  - obj.typ before the call
\*   cyc  - the cycle handed to Checker.cycle (the stack suffix), if any
\*   res  - what cycle (a boolean) or validType (a typeInfo) returned
\*   nd   - the number of errors reported before the call
\*   errs - the errors reported by the call
REntry(op, obj, cyc, nval, ndef, res, errs) ==
    [op |-> op, obj |-> obj, col |-> color[obj], typ |-> otyp[obj],
     path |-> objPath, cyc |-> cyc, nval |-> nval, ndef |-> ndef, res |-> res,
     nd |-> Len(diags), errs |-> errs]

\* The verdict of cycle permitting every cycle without constants and
\* variables, type definition or not.
cycleInvalidNoValues(cyc, nval, ndef) ==
    IF nval = Len(cyc) THEN FALSE
    ELSE IF nval = 0 THEN FALSE
    ELSE TRUE

\* The verdict of cycle permitting the cycles of constants and variables
\* only.
cycleInvalidValuesOnly(cyc, nval, ndef) ==
    IF nval = Len(cyc) THEN FALSE ELSE TRUE

\* The verdict of Checker.cycle on the counts of a cycle: TRUE reports it.
cycleInvalid(cyc, nval, ndef) ==
    IF nval = Len(cyc) THEN FALSE
    ELSE IF nval = 0 /\ ndef > 0 THEN FALSE
    ELSE TRUE

\* Checker.cycle(obj): the cycle is the stack from obj's index up.
cycle(obj) ==
    LET cyc == SubSeq(objPath, color[obj] - grey + 1, Len(objPath))
        nval == Cardinality({i \in 1..Len(cyc) : IsValue(cyc[i])})
        ndef == Cardinality({i \in 1..Len(cyc) : pkg[cyc[i]].kind = "Def"})
        isCycle == cycleInvalid(cyc, nval, ndef)
    IN  [cyc |-> cyc, nval |-> nval, ndef |-> ndef, isCycle |-> isCycle,
         errs |-> IF isCycle THEN cycleError(cyc) ELSE <<>>]

\* The grey case giving Typ[Invalid] to the objects of reported cycles only.
greyTypReported(obj, c) == IF c.isCycle THEN InvalidT ELSE otyp[obj]

\* The grey case heeding no verdict of cycle: only a constant or variable
\* without type is given Typ[Invalid].
greyTypNilOnly(obj, c) ==
    IF IsValue(obj) /\ otyp[obj] = NilT THEN InvalidT ELSE otyp[obj]

\* objDecl, grey case: what obj.typ becomes, c being the outcome of cycle.
greyTyp(obj, c) ==
    CASE IsValue(obj) ->
           IF c.isCycle \/ otyp[obj] = NilT THEN InvalidT ELSE otyp[obj]
      [] IsTypeName(obj) -> IF c.isCycle THEN InvalidT ELSE otyp[obj]
      [] OTHER -> otyp[obj]

\* objDecl, grey case.
objDeclGrey(obj, fr, c) ==
    /\ otyp' = [otyp EXCEPT ![obj] = greyTyp(obj, c)]
    /\ diags' = diags \o c.errs
    /\ rlog' = Append(rlog, REntry("objDecl", obj, c.cyc, c.nval, c.ndef,
                                   c.isCycle, c.errs))
    /\ frames' = fr
    /\ UNCHANGED <<color, objPath, named, delayed>>

\* objDecl entering a black object on the object path again.
objDeclBlackPush(obj, fr) ==
    /\ frames' = fr
    /\ objPath' = Append(objPath, obj)
    /\ rlog' = Append(rlog, REntry("objDecl", obj, <<>>, 0, 0, FALSE, <<>>))
    /\ UNCHANGED <<color, otyp, named, delayed, diags>>

\* objDecl on a black object.
objDeclBlack(obj, fr) ==
    /\ frames' = fr
    /\ rlog' = Append(rlog, REntry("objDecl", obj, <<>>, 0, 0, FALSE, <<>>))
    /\ UNCHANGED <<color, otyp, objPath, named, delayed, diags>>

\* objDecl on a white object that was given a type elsewhere.
objDeclTyped(obj, fr) ==
    /\ color' = [color EXCEPT ![obj] = black]
    /\ frames' = fr
    /\ rlog' = Append(rlog, REntry("objDecl", obj, <<>>, 0, 0, FALSE, <<>>))
    /\ UNCHANGED <<otyp, objPath, named, delayed, diags>>

\* obj.typ as the declaration of a white object sets it before it resolves
\* what it refers to: constDecl and varDecl with a declared type, typeDecl
\* (Typ[Invalid] for an alias, the new *Named otherwise), funcDecl.
firstTyp(obj) ==
    CASE IsValue(obj) -> IF pkg[obj].typed THEN BasicT ELSE NilT
      [] pkg[obj].kind = "Alias" -> InvalidT
      [] pkg[obj].kind = "Def" -> NamedT(obj)
      [] OTHER -> SigT(obj)

\* The *Named of obj as typeDecl makes it; a composite type expression is
\* made its underlying type (def.setUnderlying in Checker.typInternal) before
\* the types inside it are resolved.
firstNamed(obj) ==
    [NewNamed EXCEPT !.underlying =
        IF pkg[obj].wraps # <<>> THEN ExprT(obj, 1) ELSE NilT]

\* The colour of a function that keeps the colour objDecl gave it while its
\* signature is built.
signatureColorSaved(saved) == saved

\* funcDecl: the colour of the function while funcType builds its signature,
\* saved being the colour objDecl gave it.
signatureColor(saved) == black

\* objDecl, white case, up to the point where the declaration resolves what
\* it refers to: push, paint grey, dispatch.
objDeclWhite(obj, def, fr) ==
    /\ objPath' = Append(objPath, obj)
    /\ color' = [color EXCEPT ![obj] =
                    IF pkg[obj].kind = "Func" THEN signatureColor(grey + Len(objPath))
                    ELSE grey + Len(objPath)]
    /\ otyp' = [otyp EXCEPT ![obj] = firstTyp(obj)]
    /\ named' = IF pkg[obj].kind = "Def"
                THEN setUnderlying([named EXCEPT ![obj] = firstNamed(obj)],
                                   def, NamedT(obj))
                ELSE named
    /\ delayed' = IF IsTypeName(obj)
                  THEN Append(delayed, [op |-> "validType", obj |-> obj])
                  ELSE delayed
    /\ frames' = Append(fr, [obj |-> obj, pc |-> "ref", saved |-> grey + Len(objPath)])
    /\ rlog' = Append(rlog, REntry("objDecl", obj, <<>>, 0, 0, FALSE, <<>>))
    /\ UNCHANGED diags

\* objDecl of a resolver that stops at the first error reported.
objDeclUntilError(obj, def, fr) ==
    /\ diags = <<>>
    /\ IF color[obj] = white /\ otyp[obj] # NilT THEN objDeclTyped(obj, fr)
       ELSE IF color[obj] = white THEN objDeclWhite(obj, def, fr)
       ELSE IF color[obj] = black THEN objDeclBlack(obj, fr)
       ELSE objDeclGrey(obj, fr, cycle(obj))

\* Checker.objDecl(obj, def), called with fr the calls in progress.
objDecl(obj, def, fr) ==
    IF color[obj] = white /\ otyp[obj] # NilT THEN objDeclTyped(obj, fr)
    ELSE IF color[obj] = white THEN objDeclWhite(obj, def, fr)
    ELSE IF color[obj] = black THEN objDeclBlack(obj, fr)
    ELSE objDeclGrey(obj, fr, cycle(obj))

\* The innermost objDecl call in progress, and the calls with its position
\* changed.
Top == frames[Len(frames)]
AtPc(pc) == [frames EXCEPT ![Len(frames)].pc = pc]

\* The *Named handed down as def when obj's declaration resolves its
\* reference: the type being defined when the reference is the whole type
\* expression of its definition, nil otherwise.
defFor(obj) ==
    IF pkg[obj].kind = "Def" /\ pkg[obj].wraps = <<>> THEN obj ELSE ""

\* Checker.ident calls objDecl on the object an identifier denotes when the
\* object has no type yet, or when it is a type name used as a type.
identCalls(ref) == otyp[ref] = NilT \/ IsTypeName(ref)

\* The signature of the function obj leads back to obj itself: the lookup of
\* a method while its receiver type is used in the method's own signature
\* calls objDecl on the method.
reenters(obj) == pkg[obj].kind = "Func" /\ pkg[obj].ref = obj

\* The declaration of the innermost call resolves what it refers to.
Refer ==
    /\ frames # <<>>
    /\ Top.pc = "ref"
    /\ IF pkg[Top.obj].ref # "" /\ (identCalls(pkg[Top.obj].ref) \/ reenters(Top.obj))
       THEN objDecl(pkg[Top.obj].ref, defFor(Top.obj), AtPc("fin"))
       ELSE /\ frames' = AtPc("fin")
            /\ UNCHANGED <<color, otyp, objPath, named, delayed, diags, rlog>>
    /\ UNCHANGED <<pkg, leafTyp, nextObj, tvars, cvars, fvars, xvars>>

\* The type of the identifier ref once Checker.ident returns, "" being a
\* declaration without reference (a literal, a basic type).
identTyp(ref) == IF ref = "" THEN BasicT ELSE otyp[ref]

\* The type of a reference inside a type expression: a constant, variable
\* or function is referred to in an array length.
leafOf(obj) ==
    IF pkg[obj].ref # "" /\ ~IsTypeName(pkg[obj].ref) THEN BasicT
    ELSE identTyp(pkg[obj].ref)

\* The type of obj's whole type expression.
exprTyp(obj) == IF pkg[obj].wraps = <<>> THEN leafOf(obj) ELSE ExprT(obj, 1)

\* The type initConst / initVar give a constant or variable on behalf of its
\* initialization expression: none if it has a type already, Typ[Invalid] if
\* the operand is invalid.
initTyp(obj) ==
    IF otyp[obj] # NilT THEN otyp[obj]
    ELSE IF identTyp(pkg[obj].ref) = InvalidT THEN InvalidT
    ELSE IF pkg[obj].kind = "Const" /\ pkg[obj].ref # "" /\ IsTypeName(pkg[obj].ref)
    THEN BasicT
    ELSE identTyp(pkg[obj].ref)

\* typeDecl of a defined type after definedType returned: named.orig, then
\* named.underlying = named.Under(), u being the outcome of Under.
typeDeclDone(obj, u) ==
    /\ named' = [u.named EXCEPT ![obj].underlying = u.u]
    /\ diags' = diags \o u.errs

\* The declaration of the innermost call has resolved what it refers to:
\* the rest of constDecl, varDecl, typeDecl or funcDecl.
Declared ==
    /\ frames # <<>>
    /\ Top.pc = "fin"
    /\ frames' = AtPc("ret")
    /\ CASE IsValue(Top.obj) ->
              /\ otyp' = [otyp EXCEPT ![Top.obj] = initTyp(Top.obj)]
              /\ UNCHANGED <<color, named, leafTyp, delayed, diags>>
         [] pkg[Top.obj].kind = "Alias" ->
              /\ otyp' = [otyp EXCEPT ![Top.obj] = exprTyp(Top.obj)]
              /\ leafTyp' = [leafTyp EXCEPT ![Top.obj] = leafOf(Top.obj)]
              /\ UNCHANGED <<color, named, delayed, diags>>
         [] pkg[Top.obj].kind = "Def" ->
              /\ leafTyp' = [leafTyp EXCEPT ![Top.obj] = leafOf(Top.obj)]
              /\ typeDeclDone(Top.obj,
                              Under([named EXCEPT
                                        ![Top.obj].underlying = exprTyp(Top.obj),
                                        ![Top.obj].orig = exprTyp(Top.obj)],
                                    Top.obj))
              /\ UNCHANGED <<color, otyp, delayed>>
         [] OTHER ->
              /\ color' = [color EXCEPT ![Top.obj] = Top.saved]
              /\ delayed' = Append(delayed, [op |-> "funcBody", obj |-> Top.obj])
              /\ UNCHANGED <<otyp, named, leafTyp, diags>>
    /\ UNCHANGED <<pkg, objPath, nextObj, rlog, tvars, cvars, fvars, xvars>>

\* objDecl returning with a pop that leaves the colour of the popped object
\* alone.
ReturnUnpainted ==
    /\ frames # <<>>
    /\ Top.pc = "ret"
    /\ objPath' = SubSeq(objPath, 1, Len(objPath) - 1)
    /\ frames' = SubSeq(frames, 1, Len(frames) - 1)
    /\ UNCHANGED <<pkg, color, otyp, named, leafTyp, delayed, diags, nextObj, rlog, tvars, cvars, fvars, xvars>>

\* The deferred function of objDecl: check.pop().setColor(black).
Return ==
    /\ frames # <<>>
    /\ Top.pc = "ret"
    /\ color' = [color EXCEPT ![objPath[Len(objPath)]] = black]
    /\ objPath' = SubSeq(objPath, 1, Len(objPath) - 1)
    /\ frames' = SubSeq(frames, 1, Len(frames) - 1)
    /\ UNCHANGED <<pkg, otyp, named, leafTyp, delayed, diags, nextObj, rlog, tvars, cvars, fvars, xvars>>

\* The objects of S in source order.
InSourceOrder(S) ==
    CHOOSE q \in [1..Cardinality(S) -> S] :
        \A i, j \in 1..Cardinality(S) : i < j => Pos(q[i]) < Pos(q[j])

\* The type names declared inside a function body, and those the body of the
\* function f declares: they are objects of the function's scope, not of the
\* package's.
Locals == {"t"}
bodyTypes(f) == IF f = "a" THEN DOMAIN pkg \cap Locals ELSE {}

\* Checker.packageObjects visits the objects in source order, the aliases
\* after all others.
objList ==
    InSourceOrder({o \in DOMAIN pkg \ Locals : pkg[o].kind # "Alias"})
    \o InSourceOrder({o \in DOMAIN pkg \ Locals : pkg[o].kind = "Alias"})

\* packageObjects calls objDecl on its next object.
PackageObjects ==
    /\ frames = <<>>
    /\ nextObj < Len(objList)
    /\ nextObj' = nextObj + 1
    /\ objDecl(objList[nextObj + 1], "", frames)
    /\ UNCHANGED <<pkg, leafTyp, tvars, cvars, fvars, xvars>>

\* The delayed validType(obj.typ, nil) of a type declaration ran with
\* outcome r.
validTypeRan(obj, r) ==
    /\ named' = r.named
    /\ diags' = diags \o r.errs
    /\ rlog' = Append(rlog, REntry("validType", obj, <<>>, 0, 0, r.res, r.errs))

\* declStmt painting the local type name with the length of the object path
\* after the push.
declStmtLength(obj, rest) ==
    /\ objPath' = Append(objPath, obj)
    /\ color' = [color EXCEPT ![obj] = grey + Len(objPath) + 1]
    /\ otyp' = [otyp EXCEPT ![obj] = firstTyp(obj)]
    /\ named' = IF pkg[obj].kind = "Def"
                THEN [named EXCEPT ![obj] = firstNamed(obj)]
                ELSE named
    /\ delayed' = Append(rest, [op |-> "validType", obj |-> obj])
    /\ frames' = Append(frames, [obj |-> obj, pc |-> "ref", saved |-> grey + Len(objPath)])
    /\ rlog' = Append(rlog, REntry("declStmt", obj, <<>>, 0, 0, FALSE, <<>>))
    /\ UNCHANGED diags

\* Checker.declStmt on the type declaration of the local type name obj, up
\* to the point where typeDecl resolves what the declaration refers to:
\* push, paint grey, typeDecl. The actions queued are rest.
declStmt(obj, rest) ==
    /\ objPath' = Append(objPath, obj)
    /\ color' = [color EXCEPT ![obj] = grey + Len(objPath)]
    /\ otyp' = [otyp EXCEPT ![obj] = firstTyp(obj)]
    /\ named' = IF pkg[obj].kind = "Def"
                THEN [named EXCEPT ![obj] = firstNamed(obj)]
                ELSE named
    /\ delayed' = Append(rest, [op |-> "validType", obj |-> obj])
    /\ frames' = Append(frames, [obj |-> obj, pc |-> "ref", saved |-> grey + Len(objPath)])
    /\ rlog' = Append(rlog, REntry("declStmt", obj, <<>>, 0, 0, FALSE, <<>>))
    /\ UNCHANGED diags

\* Checker.processDelayed runs the next delayed action once the package's
\* objects are resolved: the validType of a type declaration, or the check of
\* a function body, of which the declarations of local types are modelled.
ProcessDelayed ==
    /\ frames = <<>>
    /\ nextObj = Len(objList)
    /\ delayed # <<>>
    /\ CASE delayed[1].op = "validType" ->
              /\ delayed' = Tail(delayed)
              /\ validTypeRan(delayed[1].obj,
                              validType(named, leafTyp, otyp[delayed[1].obj], <<>>))
              /\ UNCHANGED <<color, otyp, objPath, frames>>
         [] delayed[1].op = "funcBody" /\ bodyTypes(delayed[1].obj) = {} ->
              /\ delayed' = Tail(delayed)
              /\ UNCHANGED <<color, otyp, objPath, frames, named, diags, rlog>>
         [] OTHER ->
              declStmt(CHOOSE o \in bodyTypes(delayed[1].obj) : TRUE, Tail(delayed))
    /\ UNCHANGED <<pkg, leafTyp, nextObj, tvars, cvars, fvars, xvars>>

\* The objects of the checked packages, in the order of their declarations
\* in the source.
SrcOrder == << "a", "b", "c", "t" >>

PosOf(obj) == CHOOSE i \in 1..Len(SrcOrder) : SrcOrder[i] = obj

\* The composite type expressions a type declaration puts around its
\* reference: none, one, or a struct with a pointer field.
Composites ==
    {"Array", "Struct", "Interface", "Pointer", "Slice", "Map", "Chan", "Func"}
WrapsAll == {<<>>} \cup {<< k >> : k \in Composites} \cup {<< "Struct", "Pointer" >>}
WrapsSome == {<<>>, << "Struct", "Pointer" >>}

\* The declarations obj may have in a package of the objects objs whose type
\* declarations use the type expressions wraps.
DeclForms(objs, wraps, obj) ==
    {DeclInfo("Const", FALSE, <<>>, r, PosOf(obj)) : r \in objs \cup {""}}
    \cup {DeclInfo("Var", t, <<>>, r, PosOf(obj)) : t \in BOOLEAN, r \in objs \cup {""}}
    \cup {DeclInfo("Func", FALSE, <<>>, r, PosOf(obj)) : r \in objs \cup {""}}
    \cup {DeclInfo(k, FALSE, w, r, PosOf(obj)) :
            k \in {"Alias", "Def"}, w \in wraps \cup {<< "Array" >>},
            r \in objs \cup {""}}

\* The type expression fits the reference: a basic type stands alone, a
\* constant, variable or function is referred to in an array length.
FitsRef(p, obj) ==
    IF p[obj].kind \notin {"Alias", "Def"} THEN TRUE
    ELSE IF p[obj].ref = "" THEN p[obj].wraps = <<>>
    ELSE IF p[p[obj].ref].kind \in {"Alias", "Def"} THEN TRUE
    ELSE p[obj].wraps = << "Array" >>

\* The packages of the objects objs.
Packages(objs, wraps) ==
    {p \in [objs -> UNION {DeclForms(objs, wraps, o) : o \in objs}] :
        \A o \in objs : p[o].pos = PosOf(o) /\ FitsRef(p, o)}

\* The checker is about to resolve the objects of a package of P.
InitChecker(P) ==
    /\ pkg \in P
    /\ color = [o \in DOMAIN pkg |-> white]
    /\ otyp = [o \in DOMAIN pkg |-> NilT]
    /\ objPath = <<>>
    /\ named = [o \in DOMAIN pkg |-> NoNamed]
    /\ leafTyp = [o \in DOMAIN pkg |-> NilT]
    /\ frames = <<>>
    /\ delayed = <<>>
    /\ diags = <<>>
    /\ nextObj = 0
    /\ rlog = <<>>
    /\ NoTypeParams
    /\ NoFile /\ NoOperand

NextDecl ==
    \/ PackageObjects
    \/ Refer
    \/ Declared
    \/ Return
    \/ ProcessDelayed

\* Type-checking a package of three declarations of any kind.
InitDecl == InitSession /\ InitChecker(Packages({"a", "b", "c"}, WrapsSome))

SpecDecl == InitDecl /\ [][NextDecl]_vars

\* Type-checking a package of a function a, whose body declares the local
\* type t, and a declaration b of any kind.
LocalPackages ==
    {p \in Packages({"a", "b", "t"}, WrapsSome) :
        /\ p["a"].kind = "Func"
        /\ p["t"].kind \in {"Alias", "Def"}
        /\ \A o \in {"a", "b"} : p[o].ref \notin Locals}
InitLocal == InitSession /\ InitChecker(LocalPackages)

SpecLocal == InitLocal /\ [][NextDecl]_vars

\* Type-checking a package of two type declarations with any type
\* expression.
TypePackages ==
    {p \in Packages({"a", "b"}, WrapsAll) :
        \A o \in DOMAIN p : p[o].kind \in {"Alias", "Def"}}

InitTypes == InitSession /\ InitChecker(TypePackages)

SpecTypes == InitTypes /\ [][NextDecl]_vars

----------------------------------------------------------------------------
(* Properties of the declaration resolver.                                 *)

\* The source positions of the declarations of a reported cycle; two objects
\* may have the same position.
MaxPos == 3

\* The paths cycleError may be given: the non-empty sequences of distinct
\* objects.
CyclePaths ==
    {q \in UNION {[1..n -> {"a", "b", "c"}] : n \in 1..3} :
        \A i, j \in 1..Len(q) : i # j => q[i] # q[j]}

\* The checker holds the stack of a cycle of alias declarations, each the
\* name of the next, at positions of any order.
InitCycle ==
    /\ InitSession
    /\ objPath \in CyclePaths
    /\ pkg \in [{"a", "b", "c"} ->
                   {DeclInfo("Alias", FALSE, <<>>, r, p) :
                       r \in {"a", "b", "c"}, p \in 1..MaxPos}]
    /\ \A i \in 1..Len(objPath) :
          pkg[objPath[i]].ref = objPath[(i % Len(objPath)) + 1]
    /\ \A o \in DOMAIN pkg :
          (\A i \in 1..Len(objPath) : objPath[i] # o) => pkg[o].ref = o
    /\ color = [o \in DOMAIN pkg |->
                   IF \E i \in 1..Len(objPath) : objPath[i] = o
                   THEN grey + IndexIn(objPath, o) - 1 ELSE white]
    /\ otyp = [o \in DOMAIN pkg |-> IF color[o] = white THEN NilT ELSE InvalidT]
    /\ named = [o \in DOMAIN pkg |-> NoNamed]
    /\ leafTyp = [o \in DOMAIN pkg |-> NilT]
    /\ frames = <<>>
    /\ delayed = <<>>
    /\ diags = <<>>
    /\ nextObj = 0
    /\ rlog = <<>>
    /\ NoTypeParams
    /\ NoFile /\ NoOperand

\* check.cycleError(cycle) on the stack from some index up.
ReportCycle ==
    /\ rlog = <<>>
    /\ \E start \in 1..Len(objPath) :
          /\ diags' = diags \o cycleError(SubSeq(objPath, start, Len(objPath)))
          /\ rlog' = Append(rlog, REntry("cycleError", objPath[start],
                                         SubSeq(objPath, start, Len(objPath)),
                                         0, 0, TRUE, diags'))
    /\ UNCHANGED <<pkg, color, otyp, objPath, named, leafTyp, frames, delayed,
                   nextObj, tvars, cvars, fvars, xvars>>

NextCycle == ReportCycle

\* Reporting the cycles of up to three declarations.
SpecCycle == InitCycle /\ [][NextCycle]_vars

\* Log entry e is a call of objDecl on an in-progress (grey) declaration.
Reentered(e) == e.op = "objDecl" /\ e.col >= grey

\* The objects of the cycle of log entry e.
Participants(e) == {e.cyc[i] : i \in 1..Len(e.cyc)}

\* The call that made log entry e found a cycle of constants and variables
\* only.
ValueCycle(e) == Reentered(e) /\ \A o \in Participants(e) : IsValue(o)

\* Every object of S is resolved.
Resolved(S) == \A o \in S : color[o] = black

\* C13 as stated: when objDecl re-enters an in-progress declaration and the
\* stack suffix from it to the top holds constants and variables only, no
\* cycle error is reported (cycle returns false) and the participants' types
\* are the invalid type once they are resolved.
C13_ValueCycleAllInvalid ==
    \A i \in 1..Len(rlog) :
        ValueCycle(rlog[i]) =>
            /\ ~rlog[i].res
            /\ rlog[i].errs = <<>>
            /\ Resolved(Participants(rlog[i]))
                  => \A o \in Participants(rlog[i]) : otyp[o] = InvalidT

\* The step is a call of objDecl that re-enters a declaration and finds a
\* cycle of constants and variables only.
ValueCycleCall ==
    /\ Len(rlog') = Len(rlog) + 1
    /\ ValueCycle(rlog'[Len(rlog')])

\* C13 amended: such a call reports no cycle error (cycle returns false) and
\* gives the invalid type to the re-entered declaration, whose type is not
\* yet known; it changes the type of no other participant, and the
\* re-entered declaration keeps the invalid type.
C13_ValueCycleReentered ==
    [][/\ ValueCycleCall =>
            /\ ~rlog'[Len(rlog')].res
            /\ diags' = diags
            /\ otyp[rlog'[Len(rlog')].obj] = NilT
            /\ otyp' = [otyp EXCEPT ![rlog'[Len(rlog')].obj] = InvalidT]
       /\ \A i \in 1..Len(rlog) :
            ValueCycle(rlog[i]) => otyp'[rlog[i].obj] = InvalidT]_vars

\* C13 witness: a cycle of two variables was found and both are resolved;
\* the re-entered one has the invalid type, the other the type it was
\* declared with.
C13_Witness ==
    \E i \in 1..Len(rlog) :
        /\ ValueCycle(rlog[i])
        /\ Len(rlog[i].cyc) = 2
        /\ Resolved(Participants(rlog[i]))
        /\ otyp[rlog[i].obj] = InvalidT
        /\ \E o \in Participants(rlog[i]) : pkg[o].typed /\ otyp[o] = BasicT

\* The call that made log entry e found a cycle of alias type names only.
AliasCycle(e) ==
    Reentered(e) /\ \A o \in Participants(e) : pkg[o].kind = "Alias"

\* The errors of log entry e are those of one cycleError call.
ReportedCycle(e) ==
    /\ e.res
    /\ e.errs # <<>>
    /\ e.errs[1].msg = "illegal cycle"
    /\ e.errs[1].name \in Participants(e)

\* C14 as stated: a cycle of alias type names only is reported as an illegal
\* declaration cycle and, once the participants are resolved, the type of
\* every participant is the invalid type.
C14_AliasCycleAllInvalid ==
    \A i \in 1..Len(rlog) :
        AliasCycle(rlog[i]) =>
            /\ ReportedCycle(rlog[i])
            /\ Resolved(Participants(rlog[i]))
                  => \A o \in Participants(rlog[i]) : otyp[o] = InvalidT

RECURSIVE Innermost(_)
\* The type inside the composite type expressions of a type.
Innermost(t) == IF t.k = "expr" THEN Innermost(ElemOf(leafTyp, t)) ELSE t

\* C14 amended: a cycle of alias type names only is reported as an illegal
\* declaration cycle and, once the participants are resolved, the type of
\* every participant is the invalid type, or the composite type of a type
\* expression of the cycle with the invalid type inside; it is the invalid
\* type for all of them when every declaration of the cycle is the bare name
\* of the next.
C14_AliasCycleReported ==
    \A i \in 1..Len(rlog) :
        AliasCycle(rlog[i]) =>
            /\ ReportedCycle(rlog[i])
            /\ Resolved(Participants(rlog[i])) =>
                  /\ \A o \in Participants(rlog[i]) :
                        /\ Innermost(otyp[o]) = InvalidT
                        /\ otyp[o].k = "expr" => otyp[o].o \in Participants(rlog[i])
                  /\ (\A o \in Participants(rlog[i]) : pkg[o].wraps = <<>>)
                        => \A o \in Participants(rlog[i]) : otyp[o] = InvalidT

\* C14 witness: a reported cycle of two aliases, both resolved, one with the
\* invalid type and one with a composite type.
C14_Witness ==
    \E i \in 1..Len(rlog) :
        /\ AliasCycle(rlog[i])
        /\ rlog[i].res
        /\ Len(rlog[i].cyc) = 2
        /\ Resolved(Participants(rlog[i]))
        /\ \E o \in Participants(rlog[i]) : otyp[o] = InvalidT
        /\ \E o \in Participants(rlog[i]) : otyp[o].k = "expr"

\* The call that made log entry e found a cycle without constants and
\* variables and with a type definition.
DefCycle(e) ==
    /\ Reentered(e)
    /\ \A o \in Participants(e) : ~IsValue(o)
    /\ \E o \in Participants(e) : pkg[o].kind = "Def"

\* Every participant of log entry e is a defined struct type with a pointer
\* field to the next.
PointerFields(e) ==
    \A o \in Participants(e) :
        pkg[o].kind = "Def" /\ pkg[o].wraps = << "Struct", "Pointer" >>

MixedCycle(e) ==
    /\ Reentered(e)
    /\ \E o \in Participants(e) : IsValue(o)
    /\ \E o \in Participants(e) : pkg[o].kind = "Def"

\* C16: a call of objDecl that re-enters a declaration and finds a cycle with
\* at least one constant or variable and at least one type definition
\* reports the cycle (cycle returns true and its cycle error joins the
\* diagnostics) and sets the type of the re-entered declaration to the
\* invalid type.
C16_MixedCycleReported ==
    [][(Len(rlog') = Len(rlog) + 1 /\ MixedCycle(rlog'[Len(rlog')])) =>
          /\ rlog'[Len(rlog')].res
          /\ rlog'[Len(rlog')].errs = cycleError(rlog'[Len(rlog')].cyc)
          /\ diags' = diags \o rlog'[Len(rlog')].errs
          /\ Len(diags') = Len(diags) + Len(rlog'[Len(rlog')].cyc) + 2
          /\ otyp'[rlog'[Len(rlog')].obj] = InvalidT]_vars

\* C16 witness: a type definition was re-entered through a variable that
\* refers to it, the cycle was reported and the definition's type, which was
\* its named type, is the invalid type.
C16_Witness ==
    \E i \in 1..Len(rlog) :
        /\ MixedCycle(rlog[i])
        /\ pkg[rlog[i].obj].kind = "Def"
        /\ rlog[i].typ = NamedT(rlog[i].obj)
        /\ rlog[i].res
        /\ Len(rlog[i].cyc) = 2
        /\ diags # <<>>
        /\ otyp[rlog[i].obj] = InvalidT

\* The anchor of a cycle: the index of the object at the least position, the
\* least index among the objects at that position.
Anchor(cyc) ==
    CHOOSE a \in 1..Len(cyc) :
        /\ \A j \in 1..Len(cyc) : Pos(cyc[a]) <= Pos(cyc[j])
        /\ \A j \in 1..(a - 1) : Pos(cyc[a]) < Pos(cyc[j])

\* The k-th object of a cycle in stack order from index a on, wrapping round.
FromAnchor(cyc, a, k) == cyc[((a + k - 2) % Len(cyc)) + 1]

\* C17: cycleError emits one primary error at the anchor of the cycle, then
\* as many "refers to" lines as the cycle has participants, naming every
\* participant once in cyclic stack order from the anchor on, then a final
\* line naming the anchor again.
C17_CycleErrorOrder ==
    \A i \in 1..Len(rlog) :
        rlog[i].op = "cycleError" =>
            LET cyc == rlog[i].cyc
                errs == rlog[i].errs
            IN  /\ Len(errs) = Len(cyc) + 2
                /\ errs[1] = Diag(cyc[Anchor(cyc)], "illegal cycle")
                /\ \A k \in 1..Len(cyc) :
                      errs[k + 1] = Diag(FromAnchor(cyc, Anchor(cyc), k), "refers to")
                /\ {errs[k + 1].name : k \in 1..Len(cyc)} = Participants(rlog[i])
                /\ \A k, l \in 1..Len(cyc) :
                      errs[k + 1].name = errs[l + 1].name => k = l
                /\ errs[Len(cyc) + 2] = Diag(cyc[Anchor(cyc)], "end")
                /\ diags = errs

\* C17 witness: a cycle of three was reported whose second and third
\* objects share the least position, so that the lines name the second, the
\* third, the first and the second again.
C17_Witness ==
    \E i \in 1..Len(rlog) :
        /\ rlog[i].op = "cycleError"
        /\ Len(rlog[i].cyc) = 3
        /\ Pos(rlog[i].cyc[2]) = Pos(rlog[i].cyc[3])
        /\ Pos(rlog[i].cyc[2]) < Pos(rlog[i].cyc[1])
        /\ [k \in 1..5 |-> diags[k].name]
              = << rlog[i].cyc[2], rlog[i].cyc[2], rlog[i].cyc[3],
                   rlog[i].cyc[1], rlog[i].cyc[2] >>

\* The composite types that hold their element directly, and those that
\* refer to it.
DirectKinds == {"Array", "Struct", "Interface"}
IndirectKinds == {"Pointer", "Slice", "Map", "Chan", "Func"}

RECURSIVE WayBackLoop(_, _, _, _, _)
\* The way from the type t to the defined type o in the type graph, in at
\* most n steps: whether o is reached, through how many composite types
\* holding their element directly, and through how many referring to it.
WayBackLoop(t, o, n, direct, indirect) ==
    IF n = 0 THEN [back |-> FALSE, direct |-> direct, indirect |-> indirect]
    ELSE IF t = NamedT(o)
    THEN [back |-> TRUE, direct |-> direct, indirect |-> indirect]
    ELSE IF t.k = "named"
    THEN WayBackLoop(named[t.o].orig, o, n - 1, direct, indirect)
    ELSE IF t.k = "expr"
    THEN WayBackLoop(ElemOf(leafTyp, t), o, n - 1,
                     IF KindOf(t) \in DirectKinds THEN direct + 1 ELSE direct,
                     IF KindOf(t) \in IndirectKinds THEN indirect + 1 ELSE indirect)
    ELSE [back |-> FALSE, direct |-> direct, indirect |-> indirect]

\* The way from the defined type o back to itself; a declaration adds a
\* named type and at most two composite types to the graph.
WayBack(o) == WayBackLoop(named[o].orig, o, 3 * Cardinality(DOMAIN pkg) + 1, 0, 0)

\* The package is checked: its objects are resolved and the delayed actions
\* have run.
Checked == frames = <<>> /\ Resolved(DOMAIN pkg) /\ delayed = <<>>

\* The calls of validType that reported a cycle with o in it.
ReportsOn(o) ==
    {i \in 1..Len(rlog) :
        /\ rlog[i].op = "validType"
        /\ \E k \in 1..Len(rlog[i].errs) : rlog[i].errs[k].name = o}

\* C18: in a checked package, a defined type that reaches itself through
\* arrays, structs and interfaces only is rejected by validType: one call
\* returned invalid and reported a cycle with the type in it, of which one
\* type has the invalid marker and the invalid type as underlying type, and
\* the marker of the type is invalid; a defined type whose way back to itself
\* passes through a pointer, slice, map, channel or function type is
\* accepted: its validType call returned valid and reported nothing, its
\* marker is valid, its underlying type is not the invalid type, and no
\* diagnostic names it.
C18_FiniteExpansion ==
    Checked =>
        \A o \in DOMAIN pkg :
            (pkg[o].kind = "Def" /\ WayBack(o).back) =>
                /\ (WayBack(o).indirect = 0 /\ WayBack(o).direct > 0) =>
                      /\ Cardinality(ReportsOn(o)) = 1
                      /\ \A i \in ReportsOn(o) :
                            /\ rlog[i].res = "invalid"
                            /\ \E k \in 1..Len(rlog[i].errs) :
                                  /\ named[rlog[i].errs[k].name].info = "invalid"
                                  /\ named[rlog[i].errs[k].name].underlying = InvalidT
                      /\ named[o].info = "invalid"
                /\ WayBack(o).indirect > 0 =>
                      /\ \A i \in 1..Len(rlog) :
                            (rlog[i].op = "validType" /\ rlog[i].obj = o) =>
                                rlog[i].res = "valid" /\ rlog[i].errs = <<>>
                      /\ named[o].info = "valid"
                      /\ named[o].underlying # InvalidT
                      /\ \A k \in 1..Len(diags) : diags[k].name # o

\* The step is a call of objDecl on a resolved (black) declaration.
BlackCall ==
    /\ Len(rlog') = Len(rlog) + 1
    /\ rlog'[Len(rlog')].op = "objDecl"
    /\ rlog'[Len(rlog')].col = black

\* C19: a call of objDecl on a black declaration changes nothing: no colour,
\* no type, no entry of the object path, no named type, no delayed action
\* and no diagnostic; the declaration has a type, and the calls in progress
\* are those before the call, the caller having moved on.
C19_BlackIdempotent ==
    [][BlackCall =>
          /\ color' = color
          /\ otyp' = otyp
          /\ objPath' = objPath
          /\ named' = named
          /\ leafTyp' = leafTyp
          /\ delayed' = delayed
          /\ diags' = diags
          /\ otyp[rlog'[Len(rlog')].obj] # NilT
          /\ Len(frames') = Len(frames)
          /\ \A i \in 1..Len(frames) : frames'[i].obj = frames[i].obj]_vars

\* C19 witness: packageObjects called objDecl on a declaration that was
\* resolved before, on behalf of a declaration referring to it, and a
\* declaration in progress called objDecl on a black type name.
C19_Witness ==
    \E i, j, k \in 1..Len(rlog) :
        /\ i < j
        /\ rlog[i].op = "objDecl" /\ rlog[i].col = white /\ rlog[i].path # <<>>
        /\ rlog[j].op = "objDecl" /\ rlog[j].col = black /\ rlog[j].path = <<>>
        /\ rlog[j].obj = rlog[i].obj
        /\ rlog[k].op = "objDecl" /\ rlog[k].col = black /\ rlog[k].path # <<>>
        /\ Checked

-----------------------------------------------------------------------------
(* Checker.collectTypeParams: the type parameters of a generic function or *)
(* type and their bounds.                                                   *)

\* Bounds and the types of bound expressions: the empty interface, the
\* interface of an interface bound expression e, the i-th bound of contract
\* c instantiated with targs, a type that is no interface, Typ[Invalid].
Bound(k, c, i, targs) == [k |-> k, c |-> c, i |-> i, targs |-> targs]
emptyInterface == Bound("empty", "", 0, <<>>)
instantiate(c, i, targs) == Bound("inst", c, i, targs)
IsInterface(b) == b.k \in {"empty", "iface", "inst"}

\* A bound expression f.Type: none, an interface type (which may mention the
\* type parameter uses), a type that is no interface, an invalid type
\* expression, a contract name c, or c applied to args.
Expr(k, c, args, uses) == [k |-> k, c |-> c, args |-> args, uses |-> uses]

\* The contracts in scope: len(obj.TParams), and whether obj.typ is
\* Typ[Invalid].
NumTParams(c) == IF c = "C2" THEN 2 ELSE 1
Broken(c) == c = "CB"

\* check.NewTypeParam(tpar, index, bound) with the type name it belongs to.
NewTypeParam(name, index, bound) == [name |-> name, index |-> index, bound |-> bound]

\* declareTypeParams numbering the type parameters of every field from 0.
declareTypeParamsFrom0(tp, names) ==
    tp \o [i \in 1..Len(names) |-> NewTypeParam(names[i], i - 1, emptyInterface)]

\* declareTypeParams(tparams, names): the extended list.
declareTypeParams(tp, names) ==
    tp \o [i \in 1..Len(names) |->
              NewTypeParam(names[i], Len(tp) + i - 1, emptyInterface)]

\* setBoundAt(index+i, bounds[i]) for every i.
setBoundsAt(tp, index, bounds) ==
    [k \in 1..Len(tp) |->
        IF index < k /\ k <= index + Len(bounds)
        THEN [tp[k] EXCEPT !.bound = bounds[k - index]] ELSE tp[k]]

\* The outcome of handling a bound expression: the type parameters, the map
\* unused, the errors reported, the type arguments of an applied contract,
\* and whether the expression was accepted.
BoundOut(tp, un, errs, targs, ok) ==
    [tparams |-> tp, unused |-> un, errs |-> errs, targs |-> targs, ok |-> ok]

RECURSIVE argsLoopReuse(_, _, _, _, _, _)
\* The loop of contractExpr taking a type parameter of the list however
\* often it is supplied.
argsLoopReuse(args, i, un, targs, errs, sc) ==
    IF i > Len(args) THEN [targs |-> targs, unused |-> un, errs |-> errs]
    ELSE IF args[i] \in sc
    THEN argsLoopReuse(args, i + 1, [un EXCEPT ![args[i]] = FALSE],
                       Append(targs, args[i]), errs, sc)
    ELSE IF args[i] = "outer"
    THEN argsLoopReuse(args, i + 1, un, targs,
                       Append(errs, "is not an incoming type parameter"), sc)
    ELSE IF args[i] = "int"
    THEN argsLoopReuse(args, i + 1, un, targs,
                       Append(errs, "is not a type parameter"), sc)
    ELSE argsLoopReuse(args, i + 1, un, targs, errs, sc)

RECURSIVE argsLoop(_, _, _, _, _, _)
\* The loop of contractExpr over call.Args: the type arguments collected.
argsLoop(args, i, un, targs, errs, sc) ==
    IF i > Len(args) THEN [targs |-> targs, unused |-> un, errs |-> errs]
    ELSE IF args[i] \in sc
    THEN IF args[i] \in DOMAIN un /\ un[args[i]]
         THEN argsLoop(args, i + 1, [un EXCEPT ![args[i]] = FALSE],
                       Append(targs, args[i]), errs, sc)
         ELSE IF args[i] \in DOMAIN un
         THEN argsLoop(args, i + 1, un, targs,
                       Append(errs, "used multiple times"), sc)
         ELSE argsLoop(args, i + 1, un, targs,
                       Append(errs, "is not an incoming type parameter"), sc)
    ELSE IF args[i] = "outer"
    THEN argsLoop(args, i + 1, un, targs,
                  Append(errs, "is not an incoming type parameter"), sc)
    ELSE IF args[i] = "int"
    THEN argsLoop(args, i + 1, un, targs,
                  Append(errs, "is not a type parameter"), sc)
    ELSE IF args[i] = "bad"
    THEN argsLoop(args, i + 1, un, targs, errs, sc)
    ELSE argsLoop(args, i + 1, un, targs, Append(errs, "undeclared name"), sc)

\* The index of the type parameter name among targs, 0 if it is not there.
ArgIndex(targs, name) ==
    IF \E j \in 1..Len(targs) : targs[j] = name
    THEN CHOOSE j \in 1..Len(targs) : targs[j] = name
    ELSE 0

\* contractExpr giving the k-th type parameter of the list the k-th bound of
\* the contract, whatever the order of the arguments.
contractAppliedInOrder(tp, x, a) ==
    IF Len(a.targs) # Len(x.args)
    THEN BoundOut(tp, a.unused, a.errs, a.targs, FALSE)
    ELSE BoundOut([k \in 1..Len(tp) |->
                      IF ArgIndex(a.targs, tp[k].name) # 0 /\ k <= NumTParams(x.c)
                      THEN [tp[k] EXCEPT !.bound = instantiate(x.c, k, a.targs)]
                      ELSE tp[k]],
                  a.unused, a.errs, a.targs, TRUE)

\* contractExpr after the type arguments a were collected.
contractApplied(tp, x, a) ==
    IF Len(a.targs) # Len(x.args)
    THEN BoundOut(tp, a.unused, a.errs, a.targs, FALSE)
    ELSE BoundOut([k \in 1..Len(tp) |->
                      IF ArgIndex(a.targs, tp[k].name) # 0
                      THEN [tp[k] EXCEPT !.bound =
                              instantiate(x.c, ArgIndex(a.targs, tp[k].name), a.targs)]
                      ELSE tp[k]],
                  a.unused, a.errs, a.targs, TRUE)

\* check.contractExpr(x, unused) for a contract name or applied contract x.
contractExpr(tp, x, un, sc) ==
    IF Broken(x.c) THEN BoundOut(tp, un, <<>>, <<>>, FALSE)
    ELSE IF x.k = "applied"
    THEN IF Len(x.args) # NumTParams(x.c)
         THEN BoundOut(tp, un, << "type parameters but contract expects" >>, <<>>, FALSE)
         ELSE contractApplied(tp, x, argsLoop(x.args, 1, un, <<>>, <<>>, sc))
    ELSE BoundOut(tp, un, <<>>, <<>>, TRUE)

\* collectTypeParams on a field whose bound expression is a contract
\* expression, r being the outcome of contractExpr.
fieldContract(f, index, r) ==
    IF ~r.ok THEN r
    ELSE IF f.typ.k = "applied" THEN r
    ELSE IF Len(f.names) # NumTParams(f.typ.c)
    THEN [r EXCEPT !.errs = Append(r.errs, "type parameters but contract expects"),
                   !.ok = FALSE]
    ELSE [r EXCEPT !.tparams =
            setBoundsAt(r.tparams, index,
                        [i \in 1..Len(f.names) |-> instantiate(f.typ.c, i, f.names)])]

\* expand(check.typ(f.Type)) for a bound expression that is no contract
\* expression; an interface mentions names of the scope sc.
boundTyp(x, sc) ==
    CASE x.k = "iface" ->
           IF x.uses = "" \/ x.uses \in sc THEN Bound("iface", x.uses, 0, <<>>)
           ELSE Bound("invalid", "", 0, <<>>)
      [] x.k = "type" -> Bound("basic", "", 0, <<>>)
      [] OTHER -> Bound("invalid", "", 0, <<>>)

\* collectTypeParams on a field whose bound expression has the type bound.
fieldInterface(tp, un, f, index, bound) ==
    IF IsInterface(bound)
    THEN BoundOut(setBoundsAt(tp, index, [i \in 1..Len(f.names) |-> bound]),
                  un, <<>>, <<>>, TRUE)
    ELSE IF bound.k # "invalid"
    THEN BoundOut(tp, un, << "is not an interface or contract" >>, <<>>, FALSE)
    ELSE BoundOut(tp, un, <<>>, <<>>, FALSE)

\* The body of the second loop of collectTypeParams for the field f.
collectField(tp, un, sc, f, index) ==
    IF f.typ.k = "none" THEN BoundOut(tp, un, <<>>, <<>>, FALSE)
    ELSE IF f.typ.k \in {"contract", "applied"}
    THEN fieldContract(f, index, contractExpr(tp, f.typ, un, sc))
    ELSE fieldInterface(tp, un, f, index, boundTyp(f.typ, sc))

\* The first loop of collectTypeParams: the type parameters of the next
\* field are declared; after the last field the map unused is made.
DeclareTypeParams ==
    /\ cpc.loop = "declare"
    /\ typeParams' = declareTypeParams(typeParams, fieldList[cpc.f].names)
    /\ scope' = scope \cup {fieldList[cpc.f].names[i] : i \in 1..Len(fieldList[cpc.f].names)}
    /\ IF cpc.f < Len(fieldList)
       THEN /\ cpc' = [cpc EXCEPT !.f = cpc.f + 1]
            /\ UNCHANGED unused
       ELSE /\ cpc' = [loop |-> "bounds", f |-> 1, index |-> 0]
            /\ unused' = [n \in {typeParams'[i].name : i \in 1..Len(typeParams')} |-> TRUE]
    /\ UNCHANGED <<fieldList, cerrs, clog, tvars, rvars, fvars, xvars>>

\* The outcome r of handling the next field's bound expression is taken
\* over.
Collected(r) ==
    /\ typeParams' = r.tparams
    /\ unused' = r.unused
    /\ cerrs' = cerrs \o r.errs
    /\ clog' = Append(clog, [f |-> cpc.f, tparams |-> typeParams, scope |-> scope,
                             unused |-> unused, ok |-> r.ok, targs |-> r.targs,
                             errs |-> r.errs, after |-> r.tparams])

\* The second loop of collectTypeParams: the bound expression of the next
\* field is handled.
CollectBound ==
    /\ cpc.loop = "bounds"
    /\ Collected(collectField(typeParams, unused, scope, fieldList[cpc.f], cpc.index))
    /\ cpc' = IF cpc.f < Len(fieldList)
              THEN [cpc EXCEPT !.f = cpc.f + 1,
                               !.index = cpc.index + Len(fieldList[cpc.f].names)]
              ELSE [cpc EXCEPT !.loop = "done"]
    /\ UNCHANGED <<fieldList, scope, tvars, rvars, fvars, xvars>>

\* The names of the type parameters of the collected lists, in order.
ParamNames == << "P", "Q", "R" >>

\* What a contract may be applied to: type parameters of the list, a type
\* parameter of another list, a type that is no type parameter, an invalid
\* type expression.
ArgSets(n) ==
    LET as == {ParamNames[i] : i \in 1..n} \cup {"outer", "int", "bad"}
    IN  {<< a >> : a \in as} \cup {<< a, b >> : a \in as, b \in as}

\* The bound expressions of a list of n type parameters.
BoundExprs(n) ==
    {Expr(k, "", <<>>, "") : k \in {"none", "type", "invalid"}}
    \cup {Expr("iface", "", <<>>, u) : u \in {""} \cup {ParamNames[i] : i \in 1..n}}
    \cup {Expr("contract", c, <<>>, "") : c \in {"C1", "C2", "CB"}}
    \cup {Expr("applied", c, a, "") : c \in {"C1", "C2"}, a \in ArgSets(n)}
    \cup {Expr("applied", "CB", << a >>, "") : a \in {"P", "outer"}}

\* The type parameter lists of the field sizes ns: the names are dealt out
\* in order.
ListsOf(ns) ==
    LET n == IF Len(ns) = 1 THEN ns[1] ELSE ns[1] + ns[2]
        first(k) == IF k = 1 THEN 0 ELSE ns[1]
    IN  {l \in [1..Len(ns) -> [names : {SubSeq(ParamNames, 1, 1), SubSeq(ParamNames, 1, 2),
                                        SubSeq(ParamNames, 2, 2), SubSeq(ParamNames, 2, 3),
                                        SubSeq(ParamNames, 3, 3)},
                               typ : BoundExprs(n)]] :
            \A k \in 1..Len(ns) :
                l[k].names = SubSeq(ParamNames, first(k) + 1, first(k) + ns[k])}

TypeParamLists ==
    UNION {ListsOf(ns) : ns \in {<< 1 >>, << 2 >>, << 1, 1 >>, << 1, 2 >>, << 2, 1 >>}}

\* collectTypeParams is called on a list.
InitParams ==
    /\ InitSession
    /\ NoChecker
    /\ NoFile /\ NoOperand
    /\ fieldList \in TypeParamLists
    /\ typeParams = <<>>
    /\ scope = {}
    /\ unused = <<>>
    /\ cpc = [loop |-> "declare", f |-> 1, index |-> 0]
    /\ cerrs = <<>>
    /\ clog = <<>>

NextParams ==
    \/ DeclareTypeParams
    \/ CollectBound

\* Collecting the type parameters of a generic function or type.
SpecParams == InitParams /\ [][NextParams]_vars

-----------------------------------------------------------------------------
(* Properties of collectTypeParams.                                         *)

\* The number of type parameters the list declares, and the field of the
\* k-th of them.
NumNames ==
    IF Len(fieldList) = 1 THEN Len(fieldList[1].names)
    ELSE Len(fieldList[1].names) + Len(fieldList[2].names)
FieldOf(k) == IF k <= Len(fieldList[1].names) THEN 1 ELSE 2

\* Whenever a bound expression of the list is handled, every type parameter
\* of the list exists with its ordinal position and is declared in the
\* scope, and before the first is handled all bounds are the empty
\* interface.
DeclaredUpFront ==
    \A j \in 1..Len(clog) :
        /\ Len(clog[j].tparams) = NumNames
        /\ \A k \in 1..NumNames :
              /\ clog[j].tparams[k].index = k - 1
              /\ clog[j].tparams[k].name = ParamNames[k]
              /\ clog[j].tparams[k].name \in clog[j].scope
              /\ j = 1 => clog[j].tparams[k].bound = emptyInterface

\* The field of the k-th type parameter has no bound expression, or its
\* bound expression was rejected.
Unbounded(k) ==
    \/ fieldList[FieldOf(k)].typ.k = "none"
    \/ ~clog[FieldOf(k)].ok

\* The applied contract expressions of the list that were accepted with the
\* k-th type parameter among their arguments.
AppliedTo(k) ==
    {j \in 1..Len(clog) :
        clog[j].ok /\ ArgIndex(clog[j].targs, typeParams[k].name) # 0}

\* C20 as stated: every type parameter of the list is created with its
\* ordinal position and the empty interface as bound, and declared in the
\* scope, before a bound expression of the list is handled; a parameter
\* whose field has no bound expression, or whose bound expression is
\* rejected, has the empty interface as bound when collectTypeParams returns.
C20_UnboundedKeepsEmpty ==
    /\ DeclaredUpFront
    /\ cpc.loop = "done" =>
          \A k \in 1..Len(typeParams) :
              Unbounded(k) => typeParams[k].bound = emptyInterface

\* C20 amended: ... has the empty interface as bound when collectTypeParams
\* returns unless an accepted applied contract expression of the list has it
\* among its arguments; then its bound is the bound of the contract for that
\* argument.
C20_UnboundedKeepsEmptyUnlessApplied ==
    /\ DeclaredUpFront
    /\ cpc.loop = "done" =>
          \A k \in 1..Len(typeParams) :
              Unbounded(k) =>
                  /\ AppliedTo(k) = {} => typeParams[k].bound = emptyInterface
                  /\ \A j \in AppliedTo(k) :
                        typeParams[k].bound =
                            instantiate(fieldList[j].typ.c,
                                        ArgIndex(clog[j].targs, typeParams[k].name),
                                        clog[j].targs)

\* C20 witness: collectTypeParams returned on a list of two fields, of which
\* the first has no bound expression and the second a bound expression that
\* is no interface, and both type parameters have the empty interface as
\* bound, the second with position 1.
C20_Witness ==
    /\ cpc.loop = "done"
    /\ Len(fieldList) = 2
    /\ fieldList[1].typ.k = "none"
    /\ fieldList[2].typ.k = "type"
    /\ Len(clog) = 2
    /\ cerrs # <<>>
    /\ Len(typeParams) = 2
    /\ typeParams[2].index = 1
    /\ \A k \in 1..2 : typeParams[k].bound = emptyInterface

\* The j-th field's bound expression is an applied contract; its arguments.
Applied(j) == fieldList[j].typ.k = "applied"
Args(j) == fieldList[j].typ.args

\* The arguments of the j-th field's applied contract are resolved: the
\* contract is not broken and has as many parameters as there are
\* arguments.
ArgsResolved(j) ==
    /\ Applied(j)
    /\ ~Broken(fieldList[j].typ.c)
    /\ Len(Args(j)) = NumTParams(fieldList[j].typ.c)

\* The i-th argument of the j-th field's applied contract is a parameter of
\* the list that an applied contract of the fields js, or an earlier
\* argument of the same contract, supplies as well.
SuppliedBy(js, j, i) ==
    /\ \E k \in 1..NumNames : ParamNames[k] = Args(j)[i]
    /\ \/ \E j1 \in js : \E i1 \in 1..Len(Args(j1)) : Args(j1)[i1] = Args(j)[i]
       \/ \E i1 \in 1..(i - 1) : Args(j)[i1] = Args(j)[i]

\* The argument positions of the j-th field's applied contract that break a
\* rule, the earlier supplies being those of the fields js.
BadArgs(js, j) ==
    {i \in 1..Len(Args(j)) : Args(j)[i] \in {"outer", "int"} \/ SuppliedBy(js, j, i)}

\* C21 as stated: an applied contract expression that supplies a parameter
\* of the list a second time, a type parameter from outside the list or a
\* type that is no type parameter reports an error, is rejected and installs
\* no bound.
C21_BadArgumentRejected ==
    \A j \in 1..Len(clog) :
        (Applied(j) /\ BadArgs({j1 \in 1..(j - 1) : Applied(j1)}, j) # {}) =>
            /\ clog[j].errs # <<>>
            /\ ~clog[j].ok
            /\ clog[j].after = clog[j].tparams

\* C21 amended: an applied contract expression whose arguments are resolved
\* and that supplies a parameter of the list which an earlier such
\* expression or an earlier argument of its own supplied, a type parameter
\* from outside the list or a type that is no type parameter reports one
\* error for each such argument, is rejected and installs no bound.
C21_ResolvedBadArgumentRejected ==
    \A j \in 1..Len(clog) :
        ArgsResolved(j) =>
            LET bad == BadArgs({j1 \in 1..(j - 1) : ArgsResolved(j1)}, j)
            IN  /\ Len(clog[j].errs) = Cardinality(bad)
                /\ (\E i \in bad : Args(j)[i] = "outer")
                      <=> (\E e \in 1..Len(clog[j].errs) :
                              clog[j].errs[e] = "is not an incoming type parameter")
                /\ (\E i \in bad : Args(j)[i] = "int")
                      <=> (\E e \in 1..Len(clog[j].errs) :
                              clog[j].errs[e] = "is not a type parameter")
                /\ (\E i \in bad : Args(j)[i] \notin {"outer", "int"})
                      <=> (\E e \in 1..Len(clog[j].errs) :
                              clog[j].errs[e] = "used multiple times")
                /\ bad # {} => ~clog[j].ok /\ clog[j].after = clog[j].tparams

\* C21 witness: the first field's contract was applied to a parameter and a
\* type that is no type parameter, the second field's contract to the same
\* parameter again; both were rejected, each with its error, and every bound
\* is the empty interface.
C21_Witness ==
    /\ cpc.loop = "done"
    /\ Len(clog) = 2
    /\ ArgsResolved(1) /\ ArgsResolved(2)
    /\ Args(1) = << "P", "int" >>
    /\ Args(2) = << "P" >>
    /\ clog[1].errs = << "is not a type parameter" >>
    /\ clog[2].errs = << "used multiple times" >>
    /\ \A k \in 1..Len(typeParams) : typeParams[k].bound = emptyInterface

\* The j-th field's bound expression refers to a contract that is not
\* broken; the parameters it supplies to the contract: the arguments of an
\* applied contract, the names of the field for a contract name.
RefersToContract(j) ==
    fieldList[j].typ.k \in {"contract", "applied"} /\ ~Broken(fieldList[j].typ.c)
Supplied(j) == IF Applied(j) THEN Args(j) ELSE fieldList[j].names

\* The parameters the j-th field supplies are valid arguments: parameters of
\* the list, none of them supplied by an earlier applied contract whose
\* arguments were resolved or twice by this one.
ValidArgs(j) ==
    Applied(j) =>
        /\ \A i \in 1..Len(Args(j)) : \E k \in 1..NumNames : ParamNames[k] = Args(j)[i]
        /\ BadArgs({j1 \in 1..(j - 1) : ArgsResolved(j1)}, j) = {}

\* C22: a reference to a contract of N parameters that supplies N valid
\* arguments is accepted without error and makes the bound of the i-th
\* supplied parameter the i-th bound of the contract instantiated with all
\* the supplied parameters, the other bounds staying as they were; a
\* reference that supplies another number of parameters reports the
\* mismatch and installs no bound.
C22_ContractBoundsInstalled ==
    \A j \in 1..Len(clog) :
        RefersToContract(j) =>
            IF Len(Supplied(j)) # NumTParams(fieldList[j].typ.c)
            THEN /\ clog[j].errs = << "type parameters but contract expects" >>
                 /\ ~clog[j].ok
                 /\ clog[j].after = clog[j].tparams
            ELSE ValidArgs(j) =>
                 /\ clog[j].ok
                 /\ clog[j].errs = <<>>
                 /\ \A k \in 1..NumNames :
                       clog[j].after[k] =
                           IF ArgIndex(Supplied(j), ParamNames[k]) # 0
                           THEN [clog[j].tparams[k] EXCEPT !.bound =
                                   instantiate(fieldList[j].typ.c,
                                               ArgIndex(Supplied(j), ParamNames[k]),
                                               Supplied(j))]
                           ELSE clog[j].tparams[k]

\* C22 witness: the first field of a list named a contract of one parameter
\* after its one name, the second applied a contract of two parameters to
\* its two names in reverse order; each parameter has the bound of the
\* contract for its argument position.
C22_Witness ==
    /\ cpc.loop = "done"
    /\ cerrs = <<>>
    /\ Len(fieldList) = 2
    /\ fieldList[1].typ.k = "contract" /\ fieldList[1].typ.c = "C1"
    /\ Applied(2) /\ Args(2) = << "R", "Q" >>
    /\ typeParams[1].bound = instantiate("C1", 1, << "P" >>)
    /\ typeParams[2].bound = instantiate("C2", 2, << "R", "Q" >>)
    /\ typeParams[3].bound = instantiate("C2", 1, << "R", "Q" >>)

----------------------------------------------------------------------------
(* The work queue of translate.                                            *)

\* translate has returned.
Translated == fpc.at \in {"rewriteAST", "rewriteFile", "done"}

\* The identifiers of the declarations generated so far.
Generated == 1..nextIdent

\* The declaration generated under identifier id has gone through the loop
\* of translate into file.Decls, once.
Processed(id) ==
    Cardinality({k \in 1..Len(fileDecls) : fileDecls[k].id = id}) = 1

\* Every instantiation site of the declarations of decls has been replaced
\* by the identifier of a generated declaration.
SitesRewritten(decls) ==
    \A k \in 1..Len(decls) : \A n \in 1..Len(decls[k].sites) :
        decls[k].sites[n].ref \in Generated

\* C23: translate terminates on every file (the generic entities of a file
\* reach finitely many (entity, type list) pairs); when it has returned,
\* t.newDecls is empty and every declaration a synthesis queued has gone
\* through the loop, where, unless an error stopped the walk, every
\* instantiation site of its body was found and rewritten.
C23_QueueDrained ==
    /\ <>Translated
    /\ [](Translated => /\ newDecls = <<>>
                        /\ declsToDo = <<>>
                        /\ \A id \in Generated : Processed(id)
                        /\ ~err => SitesRewritten(fileDecls))

\* translate returned after it scanned a generated declaration whose own
\* site made it generate another one, which it scanned in a third pass.
C23_Witness ==
    /\ fpc.at = "rewriteAST"
    /\ ~err
    /\ nextIdent >= 2
    /\ \E k \in 1..Len(fileDecls) :
          /\ fileDecls[k].id = 1
          /\ Len(fileDecls[k].sites) = 1
          /\ fileDecls[k].sites[1].ref = 2
    /\ \E k \in 1..Len(fileDecls) :
          /\ fileDecls[k].id = 2
          /\ Len(fileDecls[k].sites) = 1
          /\ fileDecls[k].sites[1].ref = 1

----------------------------------------------------------------------------
(* Errors of a file.                                                       *)

\* C24: when a synthesis has failed during the translation of the file,
\* rewriteAST returns an error, and rewriteFile returns the error rewriteAST
\* returned without creating or writing the output file.
C24_NoOutputOnError ==
    err => /\ fpc.at \in {"rewriteFile", "done"} => outFile.astErr \notin {"", "nil"}
           /\ ~outFile.created
           /\ outFile.decls = <<>>
           /\ fpc.at = "done" => outFile.err = outFile.astErr

\* rewriteFile returned the error of a synthesis that failed after another
\* one had generated a declaration.
C24_Witness ==
    /\ fpc.at = "done"
    /\ err
    /\ nextIdent >= 1
    /\ outFile.err = "synthesis"
    /\ \E k \in 1..Len(fileDecls) : fileDecls[k].id = 1

\* Every declaration the translator holds: those in file.Decls, those the
\* pass has kept, the rest of declsToDo and those queued in t.newDecls.
AllDecls ==
    fileDecls \o keptDecls \o SubSeq(declsToDo, fpc.i, Len(declsToDo))
    \o Queued(newDecls, bodies)

\* The instantiation sites of the declarations in decls (what *pe points at).
SitesOf(decls) ==
    LET walked == SelectSeq(decls, LAMBDA d : d.kind = "func")
    IN  [k \in 1..Len(walked) |-> walked[k].sites]

\* The identifiers of the generated declarations in file.Decls.
Committed(decls) == {decls[k].id : k \in 1..Len(decls)} \ {0}

\* This step runs with the error recorded: it appends no record and
\* rewrites no reference, and the error stays.
NoOpStep ==
    /\ instantiations' = instantiations
    /\ typeInstantiations' = typeInstantiations
    /\ SitesOf(AllDecls') = SitesOf(AllDecls)
    /\ err'

\* This step is a request whose synthesis fails: it records the error,
\* appends no record and leaves its reference as it was.
FailingStep ==
    /\ instantiations' = instantiations
    /\ typeInstantiations' = typeInstantiations
    /\ SitesOf(AllDecls') = SitesOf(AllDecls)

\* C25: once the first synthesis error is recorded every step is a no-op:
\* it appends no record, rewrites no reference and commits no generated
\* declaration to file.Decls, and the error stays recorded; the failing
\* request itself appends no record and leaves its reference unchanged.
C25_FailFast ==
    [][/\ err => NoOpStep /\ Committed(fileDecls') = Committed(fileDecls)
       /\ ~err /\ err' => FailingStep]_vars

----------------------------------------------------------------------------
(* A generic type that instantiates itself.                                *)

\* Entry i of the log is a request that synthesized a declaration of the
\* generic type L, whose body instantiates L with L's own type parameter.
SynthesizedL(i) ==
    /\ log[i].op = "type"
    /\ log[i].typ = A("L")
    /\ ~log[i].hit
    /\ ~log[i].failed

\* The declaration with identifier id is in file.Decls and every site of
\* its body has been rewritten to id itself.
RefersToItself(id) ==
    \E k \in 1..Len(fileDecls) :
        /\ fileDecls[k].id = id
        /\ fileDecls[k].sites # <<>>
        /\ \A n \in 1..Len(fileDecls[k].sites) : fileDecls[k].sites[n].ref = id

----------------------------------------------------------------------------
(* The imports of the rewritten file.                                      *)

\* rewriteAST has run.
Rewrote == fpc.at \in {"rewriteFile", "done"}

\* The positions of the import declarations in file.Decls.
ImportDeclsAt == {k \in 1..Len(fileDecls) : fileDecls[k].kind = "import"}

\* The paths of a list of import specs, as the package clause reads them.
PathsOf(specs) == [k \in 1..Len(specs) |-> TrimQuotes(specs[k])]

\* The position of a path in the ascending order of all paths.
Rank(path) == CHOOSE r \in 1..Len(SortedPaths) : SortedPaths[r] = path

\* The modules a package depends on through path: path and what it imports,
\* directly or not.
Closure(path) == {path} \cup transitiveImports(path)

\* C28: after rewriteAST the file has exactly one import declaration, the
\* first declaration; its list covers the transitive closure of the package
\* path and of each original import, lists no path twice and is ascending.
C28_OneSortedImportList ==
    Rewrote =>
       /\ ImportDeclsAt = {1}
       /\ LET paths == PathsOf(fileDecls[1].specs)
          IN  /\ transitiveImports(rewriteArgs.importPath)
                    \subseteq {paths[k] : k \in 1..Len(paths)}
              /\ \A k \in 1..Len(paths) :
                    Closure(paths[k]) \subseteq {paths[n] : n \in 1..Len(paths)}
              /\ \A k, n \in 1..Len(paths) : k < n => Rank(paths[k]) < Rank(paths[n])

----------------------------------------------------------------------------
(* Named.Under.                                                            *)

\* The underlying types a defined type may have when Under is called: none
\* yet, a type that is not named, or one of the defined types.
Underlyings == {NilT, BasicT, InvalidT} \cup {NamedT(o) : o \in {"a", "b", "c"}}

\* Three defined types with any underlying types, forward chains and
\* cycles included.
InitUnder ==
    /\ InitSession
    /\ pkg = [o \in {"a", "b", "c"} |-> DeclInfo("Def", FALSE, <<>>, "", PosOf(o))]
    /\ color = [o \in DOMAIN pkg |-> white]
    /\ otyp = [o \in DOMAIN pkg |-> NilT]
    /\ objPath = <<>>
    /\ \E us \in [DOMAIN pkg -> Underlyings] :
          named = [o \in DOMAIN pkg |-> [NewNamed EXCEPT !.underlying = us[o]]]
    /\ leafTyp = [o \in DOMAIN pkg |-> NilT]
    /\ frames = <<>>
    /\ delayed = <<>>
    /\ diags = <<>>
    /\ nextObj = 0
    /\ rlog = <<>>
    /\ NoTypeParams
    /\ NoFile /\ NoOperand

\* n0.Under() is called, n0 with or without a checker.
CallUnder ==
    /\ rlog = <<>>
    /\ \E n0 \in DOMAIN named, check \in BOOLEAN :
          /\ named' = UnderOf(named, n0, check).named
          /\ diags' = diags \o UnderOf(named, n0, check).errs
          /\ rlog' = Append(rlog, [op |-> "Under", obj |-> n0, check |-> check,
                                   before |-> named,
                                   res |-> UnderOf(named, n0, check).u,
                                   errs |-> UnderOf(named, n0, check).errs])
    /\ UNCHANGED <<pkg, color, otyp, objPath, leafTyp, frames, delayed,
                   nextObj, tvars, cvars, fvars, xvars>>

NextUnder == CallUnder

SpecUnder == InitUnder /\ [][NextUnder]_vars

RECURSIVE Follow(_, _, _)
\* The type at the end of the forward chain of n in nm, followed for at most
\* `steps` links: the first underlying type that is not named (nil if a type
\* of the chain has none); "cycle" if the chain has more links than that.
Follow(nm, n, steps) ==
    IF nm[n].underlying.k # "named" THEN nm[n].underlying.k
    ELSE IF steps = 0 THEN "cycle"
    ELSE Follow(nm, nm[n].underlying.o, steps - 1)

\* The end of the forward chain of n: a chain through more links than there
\* are types is cyclic.
ChainEnd(nm, n) == Follow(nm, n, Cardinality(DOMAIN nm))

RECURSIVE ChainLoop(_, _, _)
ChainLoop(nm, n, steps) ==
    IF nm[n].underlying.k # "named" \/ steps = 0 THEN {n}
    ELSE {n} \cup ChainLoop(nm, nm[n].underlying.o, steps - 1)

\* The types of the forward chain of n, n included.
Chain(nm, n) == ChainLoop(nm, n, Cardinality(DOMAIN nm))

\* The types Under traverses and records: those of the chain whose
\* underlying type is a named type.
Recorded(nm, n) == {o \in Chain(nm, n) : nm[o].underlying.k = "named"}

\* C27: Named.Under never returns a named type; it returns the type that is
\* not named at the end of the forward chain; Typ[Invalid] when the receiver
\* or a type of the chain has no underlying type or the chain is cyclic, the
\* cycle being reported exactly when the receiver has a checker; and on
\* return the types it recorded have the result as their underlying type,
\* the others what they had.
C27_UnderResolvesChain ==
    \A i \in 1..Len(rlog) :
        LET e == rlog[i]
            end == ChainEnd(e.before, e.obj)
        IN  /\ e.res.k # "named"
            /\ end \notin {"nil", "cycle"} =>
                  e.res = [k |-> end, o |-> "", d |-> 0] /\ e.errs = <<>>
            /\ end = "nil" => e.res = InvalidT /\ e.errs = <<>>
            /\ end = "cycle" => e.res = InvalidT /\ (e.errs # <<>> <=> e.check)
            /\ \A o \in DOMAIN named :
                  named[o].underlying =
                     IF o \in Recorded(e.before, e.obj) THEN e.res
                     ELSE e.before[o].underlying

\* Under ran on a, whose chain a -> b -> c ends in a basic type, and on a
\* type with a cyclic chain, with a checker.
C27_Witness ==
    /\ rlog # <<>>
    /\ rlog[1].check
    /\ \/ /\ rlog[1].obj = "a"
          /\ rlog[1].before["a"].underlying = NamedT("b")
          /\ rlog[1].before["b"].underlying = NamedT("c")
          /\ rlog[1].before["c"].underlying = BasicT
          /\ named["a"].underlying = BasicT
          /\ named["b"].underlying = BasicT
       \/ /\ rlog[1].obj = "a"
          /\ rlog[1].before["a"].underlying = NamedT("b")
          /\ rlog[1].before["b"].underlying = NamedT("c")
          /\ rlog[1].before["c"].underlying = NamedT("b")
          /\ rlog[1].errs # <<>>
          /\ named["c"].underlying = InvalidT

----------------------------------------------------------------------------
(* Diagnostics do not stop the resolver.                                   *)

\* The participants of the offending cycles found so far: the declarations
\* named by the cycle and expansion errors reported, and those of the
\* initialization cycles of constants and variables, which objDecl leaves
\* to be reported when the initialization order is determined.
Offenders ==
    {diags[k].name : k \in 1..Len(diags)}
    \cup UNION {Participants(rlog[i]) : i \in {j \in 1..Len(rlog) : ValueCycle(rlog[j])}}

RECURSIVE DependsLoop(_, _)
DependsLoop(o, n) ==
    IF o = "" \/ n = 0 THEN {}
    ELSE {o} \cup DependsLoop(pkg[o].ref, n - 1)

\* The declarations o depends on, o included: o refers to at most one, which
\* refers to at most one, and so on.
DependsOn(o) == DependsLoop(o, Cardinality(DOMAIN pkg))

\* C29: a reported cycle or expansion error does not stop the resolver:
\* while the package is not yet checked the resolver has a next step, and a
\* declaration that depends on no declaration named in an error has, once
\* resolved (black), a type that is not the invalid type; if it is a defined
\* type, its underlying type is not invalid either and validType accepts it.
C29_DiagnosticsDoNotAbort ==
    diags # <<>> =>
        /\ ~Checked => ENABLED NextDecl
        /\ \A o \in DOMAIN pkg :
              (DependsOn(o) \cap Offenders = {} /\ color[o] = black) =>
                  /\ otyp[o] \notin {InvalidT, NilT}
                  /\ pkg[o].kind = "Def" => named[o].underlying \notin {InvalidT, NilT}
                  /\ (pkg[o].kind = "Def" /\ Checked) => named[o].info = "valid"

\* The alias a of itself was reported as a cycle when it was resolved, and
\* afterwards the defined type c, which refers to the variable-free b, was
\* resolved and accepted.
C29_Witness ==
    /\ Checked
    /\ Offenders = {"a"}
    /\ pkg["a"].kind = "Alias"
    /\ pkg["c"].kind = "Def"
    /\ pkg["c"].ref = "b"
    /\ \E i, j \in 1..Len(rlog) :
          /\ i < j
          /\ rlog[i].errs # <<>>
          /\ rlog[j].op = "objDecl"
          /\ rlog[j].obj = "c"
          /\ rlog[j].col = white
    /\ color["c"] = black
    /\ named["c"].info = "valid"

(***************************************************************************)
(* C30: funcDecl paints the function black while its signature is built.   *)
(***************************************************************************)

\* The calls of objDecl in progress that are in funcDecl, building the
\* signature of their function.
InSignature ==
    {k \in 1..Len(frames) :
        pkg[frames[k].obj].kind = "Func" /\ frames[k].pc \in {"ref", "fin"}}

\* The index (from 0, as Checker.push returns it) of the innermost entry of
\* obj on the object path.
PathIndex(obj) ==
    CHOOSE i \in 0..(Len(objPath) - 1) :
        /\ objPath[i + 1] = obj
        /\ \A j \in (i + 1)..(Len(objPath) - 1) : objPath[j + 1] # obj

\* The calls of objDecl on a function made while its signature was built.
FuncReentered ==
    {i \in 1..Len(rlog) :
        /\ rlog[i].op = "objDecl"
        /\ pkg[rlog[i].obj].kind = "Func"
        /\ \E k \in 1..Len(rlog[i].path) : rlog[i].path[k] = rlog[i].obj}

\* funcDecl has built the signature of the innermost call's function.
SignatureBuilt ==
    /\ frames # <<>>
    /\ Top.pc = "fin"
    /\ pkg[Top.obj].kind = "Func"
    /\ frames' = AtPc("ret")

\* The bodies of functions waiting in the queue of delayed actions.
BodiesQueued == {k \in 1..Len(delayed) : delayed[k].op = "funcBody"}

\* C30: while funcDecl builds a function's signature the function is black,
\* and an objDecl call on it made in the meantime found it black, reported
\* nothing and changed nothing; when the signature is built the function gets
\* the grey colour of its own index on the object path back, the path is
\* left as it is, and the body is appended to the delayed actions, which run
\* only when no declaration is being resolved and the package's objects have
\* all been visited.
C30_FuncBlackDuringSignature ==
    /\ [](\A k \in InSignature : color[frames[k].obj] = black)
    /\ [](\A i \in FuncReentered :
             /\ rlog[i].col = black
             /\ rlog[i].errs = <<>>
             /\ rlog[i].res = FALSE)
    /\ [][(/\ frames # <<>>
           /\ Top.pc = "ref"
           /\ reenters(Top.obj)
           /\ frames' = AtPc("fin"))
          => /\ Len(rlog') = Len(rlog) + 1
             /\ Len(rlog') \in FuncReentered'
             /\ UNCHANGED <<color, otyp, objPath, named, delayed, diags>>]_vars
    /\ [][SignatureBuilt =>
             /\ color'[Top.obj] = grey + PathIndex(Top.obj)
             /\ color'[Top.obj] = Top.saved
             /\ \A o \in DOMAIN pkg \ {Top.obj} : color'[o] = color[o]
             /\ objPath' = objPath
             /\ objPath[Len(objPath)] = Top.obj
             /\ delayed' = Append(delayed, [op |-> "funcBody", obj |-> Top.obj])
             /\ UNCHANGED <<otyp, diags, rlog>>]_vars
    /\ [][Cardinality(BodiesQueued') < Cardinality(BodiesQueued) =>
             /\ frames = <<>>
             /\ nextObj = Len(objList)
             /\ delayed # <<>>
             /\ delayed[1].op = "funcBody"
             /\ delayed' = Tail(delayed)]_vars

\* The function a named itself in its signature: objDecl was called on it
\* again while it was black, its colour was restored, it was popped, and its
\* body ran from the queue after the package's objects were visited.
C30_Witness ==
    /\ Checked
    /\ pkg["a"].kind = "Func"
    /\ pkg["a"].ref = "a"
    /\ FuncReentered # {}
    /\ \A i \in FuncReentered : rlog[i].obj = "a"
    /\ color["a"] = black
    /\ diags = <<>>

(***************************************************************************)
(* C31: a grey object is on the object path at the index its colour holds. *)
(***************************************************************************)

\* The index (from 0) on the object path that the colour of the grey object
\* o encodes.
GreyIndex(o) == color[o] - grey

\* C31: every object with a grey colour (>= grey) is on the object path at
\* the index colour - grey, whether objDecl pushed it or declStmt pushed it
\* as a local type name, and also after funcDecl painted a function black
\* and grey again.
C31_GreyOnPath ==
    \A o \in DOMAIN pkg :
        color[o] >= grey =>
            /\ GreyIndex(o) < Len(objPath)
            /\ objPath[GreyIndex(o) + 1] = o

\* The local type t, pushed by declStmt, is grey at index 0, after b had been
\* pushed by objDecl at index 1 while the signature of the function a was
\* built, and a had been painted grey again.
C31_Witness ==
    /\ color["t"] = grey
    /\ objPath = << "t" >>
    /\ rlog[Len(rlog)].op = "declStmt"
    /\ \E i \in 1..Len(rlog) :
          /\ rlog[i].op = "objDecl"
          /\ rlog[i].obj = "b"
          /\ rlog[i].col = white
          /\ rlog[i].path = << "a" >>

(***************************************************************************)
(* C32: pushes and pops of the object path are balanced.                   *)
(***************************************************************************)

\* The entry of the call that found obj white without a type and pushed it.
PushOf(obj) ==
    CHOOSE i \in 1..Len(rlog) :
        /\ rlog[i].op \in {"objDecl", "declStmt"}
        /\ rlog[i].obj = obj
        /\ rlog[i].col = white
        /\ rlog[i].typ = NilT

\* The innermost call returns.
Returns ==
    /\ frames # <<>>
    /\ Top.pc = "ret"
    /\ Len(frames') = Len(frames) - 1

\* C32: the calls in progress that pushed an object are the entries of the
\* object path, in order; when such a call returns, the object popped is the
\* one the call pushed, it becomes black, its type is not nil, and the object
\* path is what it was when the call was made, whatever calls were nested in
\* it; no object becomes white again, a grey object keeps its colour until
\* it becomes black, a black object is painted grey only by funcDecl
\* restoring the colour of a function whose call has not returned, and no
\* object is grey when no call is in progress.
C32_StackBalanced ==
    /\ [](/\ Len(frames) = Len(objPath)
          /\ \A k \in 1..Len(frames) : frames[k].obj = objPath[k]
          /\ frames = <<>> => \A o \in DOMAIN pkg : color[o] \in {white, black})
    /\ [][Returns =>
             /\ objPath[Len(objPath)] = Top.obj
             /\ color'[Top.obj] = black
             /\ otyp'[Top.obj] # NilT
             /\ objPath' = rlog[PushOf(Top.obj)].path
             /\ frames' = SubSeq(frames, 1, Len(frames) - 1)]_vars
    /\ [][\A o \in DOMAIN pkg :
             /\ color[o] # white => color'[o] # white
             /\ color[o] >= grey => color'[o] \in {color[o], black}
             /\ (color[o] = black /\ color'[o] # black) =>
                   /\ SignatureBuilt
                   /\ o = Top.obj
                   /\ color'[o] >= grey]_vars

\* The call on a, which pushed a on the empty path, has returned after the
\* nested calls on b and c, the innermost of which met the grey a again and
\* reported a cycle.
C32_Witness ==
    /\ frames = <<>>
    /\ objPath = <<>>
    /\ color["a"] = black
    /\ otyp["a"] # NilT
    /\ \E i, j, k \in 1..Len(rlog) :
          /\ i < j
          /\ j < k
          /\ rlog[i].op = "objDecl" /\ rlog[i].obj = "a" /\ rlog[i].col = white
          /\ rlog[i].path = <<>>
          /\ rlog[j].op = "objDecl" /\ rlog[j].obj = "c" /\ rlog[j].col = white
          /\ rlog[j].path = << "a", "b" >>
          /\ rlog[k].op = "objDecl" /\ rlog[k].obj = "a" /\ rlog[k].col >= grey
          /\ rlog[k].errs # <<>>

(***************************************************************************)
(* C33: the marker 'marked' exists only during a traversal of validType.   *)
(***************************************************************************)

RECURSIVE MetLoop(_, _, _, _)
\* The named types a traversal from typ leads to through arrays, structs,
\* interfaces and the right-hand sides of type declarations, stopping at a
\* named type whose underlying type is invalid.
MetLoop(nm, lt, typ, n) ==
    IF n = 0 THEN {}
    ELSE IF KindOf(typ) \in {"Array", "Struct", "Interface"}
    THEN MetLoop(nm, lt, ElemOf(lt, typ), n - 1)
    ELSE IF KindOf(typ) = "named"
    THEN {typ.o} \cup (IF nm[typ.o].underlying = InvalidT THEN {}
                       ELSE MetLoop(nm, lt, nm[typ.o].orig, n - 1))
    ELSE {}
Met(typ) == MetLoop(named, leafTyp, typ, 3 * Cardinality(DOMAIN pkg) + 1)

\* The delayed validType call that processDelayed is about to make.
ValidTypeDue ==
    /\ frames = <<>>
    /\ nextObj = Len(objList)
    /\ delayed # <<>>
    /\ delayed[1].op = "validType"

\* C33: between the top-level calls of validType no named type is marked;
\* a top-level call never reaches the panic "cycle start not found", that
\* is, every named type it meets marked is on its path; when it returns,
\* every named type it met has the marker valid or invalid and no type is
\* marked; and it returns valid or invalid.
C33_MarkedOnlyDuringTraversal ==
    /\ \A o \in DOMAIN pkg : named[o].info # "marked"
    /\ ValidTypeDue =>
          \A r \in {validType(named, leafTyp, otyp[delayed[1].obj], <<>>)} :
             /\ ~r.panic
             /\ r.res \in {"valid", "invalid"}
             /\ \A o \in DOMAIN pkg : r.named[o].info # "marked"
             /\ \A o \in Met(otyp[delayed[1].obj]) :
                   r.named[o].info \in {"valid", "invalid"}
    /\ \A i \in 1..Len(rlog) :
          rlog[i].op = "validType" => rlog[i].res \in {"valid", "invalid"}

\* validType has run on the defined type a, an array of b, where b is an
\* array of a: it met a marked on its path, reported the cycle, and left a
\* and b invalid.
C33_Witness ==
    /\ pkg["a"].kind = "Def" /\ pkg["a"].ref = "b" /\ pkg["a"].wraps = << "Array" >>
    /\ pkg["b"].kind = "Def" /\ pkg["b"].ref = "a" /\ pkg["b"].wraps = << "Array" >>
    /\ ReportsOn("a") # {}
    /\ named["a"].info = "invalid"
    /\ named["b"].info = "invalid"
    /\ Checked

(***************************************************************************)
(* C34: an infinite-expansion cycle is reported once.                      *)
(***************************************************************************)

\* The top-level calls of validType made so far, and the objects named in
\* the cycle error that call i reported.
ValidTypeCalls == {i \in 1..Len(rlog) : rlog[i].op = "validType"}
Reported(i) == {rlog[i].errs[k].name : k \in 1..Len(rlog[i].errs)}

\* The named types the type of the type name o expands to: those reached
\* through arrays, structs, interfaces and the right-hand sides of type
\* declarations.
Expands(o) ==
    MetLoop([x \in DOMAIN pkg |-> [named[x] EXCEPT !.underlying = NilT]],
            leafTyp, otyp[o], 3 * Cardinality(DOMAIN pkg) + 1)

\* Later call j visits a defined type that has to do with the cycle call i
\* reported, where Related(o) are the types the type of o has to do with.
ReportedOnce(Related(_)) ==
    \A i, j \in ValidTypeCalls :
        (/\ i < j
         /\ rlog[i].errs # <<>>
         /\ pkg[rlog[j].obj].kind = "Def"
         /\ Related(rlog[j].obj) \cap Reported(i) # {}) =>
            /\ rlog[j].res = "invalid"
            /\ rlog[j].errs = <<>>

\* C34 as stated: after validType reported a cycle, every later top-level
\* validType call on a type of the cycle or on a type that depends on a type
\* of the cycle (refers to it, directly or through other declarations)
\* returns invalid and reports nothing.
C34_ReportedOnce == ReportedOnce(DependsOn)

\* C34 amended: after validType reported a cycle, every later top-level
\* validType call on a type of the cycle, or on a type that expands to a
\* type of the cycle through arrays, structs and interfaces only, returns
\* invalid and reports nothing; and no two calls report a cycle with a type
\* in common.
C34_ReportedOnceExpanding ==
    /\ ReportedOnce(Expands)
    /\ \A i, j \in ValidTypeCalls : i # j => Reported(i) \cap Reported(j) = {}

\* validType reported the cycle of a and b, both arrays of the other, when
\* it was called on the first of them; the later calls on the other and on c,
\* an array of a, returned invalid and reported nothing.
C34_Witness ==
    /\ Checked
    /\ pkg["a"].kind = "Def" /\ pkg["a"].ref = "b" /\ pkg["a"].wraps = << "Array" >>
    /\ pkg["b"].kind = "Def" /\ pkg["b"].ref = "a" /\ pkg["b"].wraps = << "Array" >>
    /\ pkg["c"].kind = "Def" /\ pkg["c"].ref = "a" /\ pkg["c"].wraps = << "Array" >>
    /\ \E i, j, k \in ValidTypeCalls :
          /\ i < j /\ j < k
          /\ Reported(i) = {"a", "b"}
          /\ rlog[j].res = "invalid" /\ rlog[j].errs = <<>>
          /\ rlog[k].res = "invalid" /\ rlog[k].errs = <<>>
          /\ "c" \in {rlog[j].obj, rlog[k].obj}

(***************************************************************************)
(* C35: the lists of Instantiation Records are append-only.                *)
(***************************************************************************)

\* The list s is the beginning of the list t.
StartsWith(t, s) == Len(s) <= Len(t) /\ SubSeq(t, 1, Len(s)) = s

\* The step is a request, and the entry it logged.
Requested == Len(log') = Len(log) + 1 /\ IsRequest(log'[Len(log')])
NewEntry == log'[Len(log')]

\* The step is a type request that synthesized a declaration.
TypeSynthesized ==
    /\ Requested
    /\ NewEntry.op = "type"
    /\ ~NewEntry.hit
    /\ ~NewEntry.failed

\* C35: every step leaves each record of t.instantiations[key] and of
\* t.typeInstantiations[typ] in its list at its index; when a type request
\* synthesizes a declaration, the records that the synthesis itself appended
\* to the lists of t.typeInstantiations, the list of the requested type
\* included, are still there at their index after the request appended its
\* own record; and a request that hits is answered with the first record of
\* the list whose types are pairwise identical to the requested ones.
C35_AppendOnly ==
    [][/\ \A k \in DOMAIN instantiations :
             StartsWith(Insts(instantiations', k), instantiations[k])
       /\ \A t \in DOMAIN typeInstantiations :
             StartsWith(Insts(typeInstantiations', t), typeInstantiations[t])
       /\ TypeSynthesized =>
             \A r \in {instantiateTypeDecl(heap, typeInstantiations, newDecls, nextIdent,
                                           NewEntry.typ, NewEntry.types, TRUE)} :
                \A t \in DOMAIN r.ti :
                   StartsWith(Insts(typeInstantiations', t), r.ti[t])
       /\ (Requested /\ NewEntry.hit) =>
             \A insts \in {IF NewEntry.op = "func"
                           THEN Insts(instantiations, NewEntry.key)
                           ELSE Insts(typeInstantiations, NewEntry.typ)} :
                /\ FindInst(heap, insts, NewEntry.types) # 0
                /\ NewEntry.ident = insts[FindInst(heap, insts, NewEntry.types)].decl
      ]_vars

(***************************************************************************)
(* C36: a hit of the type lookups yields a declaration identifier.         *)
(***************************************************************************)

\* The lookups of t.typeInstantiations made for a reference so far that
\* found a record: hits of translateTypeInstantiation and of
\* lookupInstantiatedType.
TypeHits == {i \in 1..Len(log) : log[i].op \in {"type", "lookup"} /\ log[i].hit}

\* C36: every record found by the scan of translateTypeInstantiation or of
\* lookupInstantiatedType has a declaration identifier (inst.decl is not
\* nil), so no reference is rewritten to a nil identifier; the records of
\* instantiateType, which have none, are not found by these scans.
C36_HitsHaveIdentifier == \A i \in TypeHits : log[i].ident # 0

(***************************************************************************)
(* C37: the memoized substitution agrees with the unmemoized one.          *)
(***************************************************************************)

RECURSIVE Shape(_, _)
\* The type at address x of heap h written out as a value without
\* addresses: two types with the same Shape differ in their addresses only.
\* A named type is written as its name and type arguments.
Shape(h, x) ==
    IF x = 0 THEN << "nil" >>
    ELSE CASE h[x].kind \in {"Basic", "TypeParam"} -> << h[x].kind, h[x].name >>
           [] h[x].kind = "Array" -> << "Array", Shape(h, h[x].elem), h[x].len >>
           [] h[x].kind \in {"Slice", "Pointer"} -> << h[x].kind, Shape(h, h[x].elem) >>
           [] h[x].kind = "Map" ->
                << "Map", Shape(h, h[x].key), Shape(h, h[x].elem), "" >>
           [] h[x].kind = "Chan" -> << "Chan", Shape(h, h[x].elem), h[x].dir, "", "" >>
           [] h[x].kind = "Struct" ->
                << "Struct",
                   [i \in 1..Len(h[x].fields) |->
                      << h[x].fields[i].name, Shape(h, h[x].fields[i].typ) >>],
                   h[x].tags, "", "", "" >>
           [] h[x].kind = "Tuple" ->
                << "Tuple",
                   [i \in 1..Len(h[x].vars) |->
                      << h[x].vars[i].name, Shape(h, h[x].vars[i].typ) >>],
                   "", "", "", "", "" >>
           [] h[x].kind = "Signature" ->
                << "Signature", Shape(h, h[x].params), Shape(h, h[x].results),
                   h[x].variadic, h[x].recv, "", "", "" >>
           [] h[x].kind = "Interface" ->
                << "Interface",
                   [i \in 1..Len(h[x].methods) |->
                      << h[h[x].methods[i]].name, Shape(h, h[h[x].methods[i]].typ) >>],
                   [i \in 1..Len(h[x].embeddeds) |-> Shape(h, h[x].embeddeds[i])],
                   "", "", "", "", "", "" >>
           [] h[x].kind = "Named" ->
                << "Named", h[x].name,
                   [i \in 1..Len(h[x].targs) |-> Shape(h, h[x].targs[i])],
                   "", "", "", "", "", "", "" >>
           [] OTHER -> << "Func", h[x].name, Shape(h, h[x].typ),
                          "", "", "", "", "", "", "", "" >>

\* The call that led to the current state was instantiateType(ta, typ).
SubstCalled == log # <<>> /\ Last.op = "subst"

\* What doInstantiateType computes for the last call's arguments without any
\* memo record.
Unmemoized == doInstantiateType(heap, <<>>, Last.ta, Last.typ)

\* C37: what instantiateType(ta, typ) returned is, up to the addresses of
\* the types built, what doInstantiateType(ta, typ) computes for ta's own
\* mapping of type parameters to type arguments without the memo records,
\* whatever typeArgs the earlier requests of the session used.
C37_MemoAgrees ==
    SubstCalled =>
        \A r \in {Unmemoized} : Shape(r.heap, Last.res) = Shape(r.heap, r.res)

(***************************************************************************)
(* C38: a type parameter's bound is assigned by one bound expression.      *)
(***************************************************************************)

\* The type parameters whose bound the bound expression of log entry e
\* assigned: the arguments of an accepted applied contract, the names of the
\* field of an accepted contract name or interface bound.
AssignedBy(e) ==
    IF ~e.ok THEN {}
    ELSE IF fieldList[e.f].typ.k = "applied"
    THEN {e.targs[i] : i \in 1..Len(e.targs)}
    ELSE {fieldList[e.f].names[i] : i \in 1..Len(fieldList[e.f].names)}

\* The bound expressions handled so far that assigned the bound of n.
Assigners(n) == {i \in 1..Len(clog) : n \in AssignedBy(clog[i])}

\* C38: when collectTypeParams returns, no type parameter has had its bound
\* assigned by more than one bound expression of the list: a parameter bound
\* by the contract name or interface of its own field is not accepted
\* afterwards as an argument of an applied contract, and a parameter bound as
\* an argument of an applied contract is not bound again by its own field.
C38_BoundAssignedOnce ==
    cpc.loop = "done" =>
        \A k \in 1..Len(typeParams) : Cardinality(Assigners(typeParams[k].name)) <= 1

----------------------------------------------------------------------------
(* C39: the declarations of the translated file.                           *)

\* A declaration with nothing generic in it: not a parameterized function
\* or type, not a contract, and, for a type declaration group, a group that
\* kept at least one spec and none with type parameters.
Lowered(d) ==
    /\ d.kind \notin {"generic", "contract"}
    /\ d.kind = "type" =>
          /\ d.specs # <<>>
          /\ \A s \in 1..Len(d.specs) : ~d.specs[s].tparams

\* The declaration d without its parameterized type specs.
WithoutGeneric(d) ==
    IF d.kind = "type"
    THEN [d EXCEPT !.specs = SelectSeq(@, LAMBDA s : ~s.tparams)]
    ELSE d

\* The declarations of decls that are left, in their order.
Survivors(decls) ==
    SelectSeq([k \in 1..Len(decls) |-> WithoutGeneric(decls[k])], Lowered)

\* The identifiers of the declarations of decls, in their order.
Ids(decls) == [k \in 1..Len(decls) |-> decls[k].id]

\* file.Decls is a run of declarations of the source followed by the
\* generated declarations 1, 2, ... in the order of their identifiers, the
\* order in which the syntheses queued them.
OriginalsThenGenerated(decls, last) ==
    /\ Len(decls) >= last
    /\ \A k \in 1..Len(decls) :
          decls[k].id = IF k <= Len(decls) - last THEN 0 ELSE k - (Len(decls) - last)

\* C39: in every pass of translate the declarations kept so far are the
\* declarations already visited, in their order, minus the parameterized
\* functions and types, the contracts and the type groups left without a
\* spec; a pass ends by appending what it kept to file.Decls and by taking
\* the queued declarations, in the order they were queued, as the next
\* batch; and when translate has returned without error, file.Decls holds
\* the kept declarations of the source followed by every generated
\* declaration once, in the order of generation, and nothing generic.
C39_FileDecls ==
    /\ [](fpc.at = "translate" =>
             keptDecls = Survivors(SubSeq(declsToDo, 1, fpc.i - 1)))
    /\ []((fpc.at = "rewriteAST" /\ ~err) =>
             /\ \A k \in 1..Len(fileDecls) : Lowered(fileDecls[k])
             /\ OriginalsThenGenerated(fileDecls, nextIdent))
    /\ [][fpc.at = "translate" =>
             \/ /\ fileDecls' = fileDecls
                /\ Ids(declsToDo') = Ids(declsToDo)
                /\ fpc'.at = "translate"
                /\ \/ fpc'.i = fpc.i /\ fpc'.j = fpc.j + 1
                   \/ fpc'.i = fpc.i + 1
             \/ /\ fpc.i = Len(declsToDo) + 1
                /\ fileDecls' = fileDecls \o keptDecls
                /\ Ids(declsToDo') = newDecls
                /\ fpc'.i = 1]_vars

\* C39 witness: translate returned without error on a file whose type
\* declaration group lost a parameterized spec and kept another one; the
\* file holds four declarations of the source and at least two generated
\* ones, the second queued in a later pass than the first.
C39_Witness ==
    /\ fpc.at = "rewriteAST"
    /\ ~err
    /\ Len(fileDecls) >= 6
    /\ Ids(SubSeq(fileDecls, 1, 6)) = <<0, 0, 0, 0, 1, 2>>
    /\ fileDecls[2].kind = "type" /\ Len(fileDecls[2].specs) = 1
    /\ fileDecls[5].sites # <<>> /\ fileDecls[5].sites[1].ref = 2

----------------------------------------------------------------------------
(* Conversions (conversions.go).                                           *)
(*                                                                         *)
(* The types of this part are values: a basic type, a named type with its  *)
(* underlying type, a pointer, a slice, a struct of one tagged field, an   *)
(* interface given by the name of its method set.                          *)

NoElem == [k |-> "none"]
BasicType(name) == [k |-> "Basic", name |-> name, elem |-> NoElem]
NamedType(name, u) == [k |-> "Named", name |-> name, elem |-> u]
PointerT(base) == [k |-> "Pointer", name |-> "", elem |-> base]
SliceT(elem) == [k |-> "Slice", name |-> "", elem |-> elem]
StructT(tag, ftyp) == [k |-> "Struct", name |-> tag, elem |-> ftyp]
InterfaceT(methods) == [k |-> "Interface", name |-> methods, elem |-> NoElem]

\* typ.Under(), and typ.Basic(): the underlying type if it is a *Basic,
\* else nil (NoElem).
Underlying(typ) == IF typ.k = "Named" THEN typ.elem ELSE typ
BasicOf(typ) == IF Underlying(typ).k = "Basic" THEN Underlying(typ) ELSE NoElem

\* The predicates of predicates.go on the kinds of basic types.
IntegerKinds == {"int", "int8", "byte", "rune", "uintptr", "untyped int", "untyped rune"}
UntypedKinds == {"untyped bool", "untyped int", "untyped rune", "untyped float",
                 "untyped string", "untyped nil"}
isBasicOf(typ, kinds) == BasicOf(typ) # NoElem /\ BasicOf(typ).name \in kinds
isInteger(typ) == isBasicOf(typ, IntegerKinds)
isFloat(typ) == isBasicOf(typ, {"float64", "untyped float"})
isComplex(typ) == isBasicOf(typ, {"complex128"})
isString(typ) == isBasicOf(typ, {"string", "untyped string"})
isBoolean(typ) == isBasicOf(typ, {"bool", "untyped bool"})
isUntyped(typ) == isBasicOf(typ, UntypedKinds)
isConstType(typ) ==
    isInteger(typ) \/ isFloat(typ) \/ isComplex(typ) \/ isString(typ) \/ isBoolean(typ)
isNamed(typ) == typ.k \in {"Basic", "Named"}
isInterfaceType(typ) == Underlying(typ).k = "Interface"

\* Default(typ): the default type of an untyped type.
Default(typ) ==
    IF typ.k # "Basic" THEN typ
    ELSE CASE typ.name = "untyped bool" -> BasicType("bool")
           [] typ.name = "untyped int" -> BasicType("int")
           [] typ.name = "untyped rune" -> BasicType("rune")
           [] typ.name = "untyped float" -> BasicType("float64")
           [] typ.name = "untyped string" -> BasicType("string")
           [] OTHER -> typ

\* isUintptr, isUnsafePointer, isPointer, isBytesOrRunes.
isUintptr(typ) == isBasicOf(typ, {"uintptr"})
isUnsafePointer(typ) == isBasicOf(typ, {"unsafe.Pointer"})
isPointer(typ) == Underlying(typ).k = "Pointer"
isBytesOrRunes(typ) ==
    /\ Underlying(typ).k = "Slice"
    /\ isBasicOf(Underlying(typ).elem, {"byte", "rune"})

\* types.Identical, and identicalIgnoreTags when tags is FALSE.
RECURSIVE identicalTypes(_, _, _)
identicalTypes(a, b, tags) ==
    /\ a.k = b.k
    /\ CASE a.k \in {"Basic", "Named", "Interface"} -> a.name = b.name
         [] a.k \in {"Pointer", "Slice"} -> identicalTypes(a.elem, b.elem, tags)
         [] a.k = "Struct" -> /\ identicalTypes(a.elem, b.elem, tags)
                              /\ tags => a.name = b.name
         [] OTHER -> FALSE

\* A constant value: an integer v (huge: beyond 64 bits), a float v or
\* v + 1/2 (frac), a string of code points s, a boolean.
Val(k, v, frac, huge, s) == [k |-> k, v |-> v, frac |-> frac, huge |-> huge, s |-> s]
NoVal == Val("none", 0, FALSE, FALSE, <<>>)

\* constant.ToInt and constant.ToFloat.
ToInt(val) ==
    IF val.k = "int" \/ (val.k = "float" /\ ~val.frac)
    THEN [val EXCEPT !.k = "int"] ELSE [val EXCEPT !.k = "unknown"]
ToFloat(val) ==
    IF val.k \in {"int", "float"} THEN [val EXCEPT !.k = "float"]
    ELSE [val EXCEPT !.k = "unknown"]

\* representableConst(x, check, typ, rounded): whether the value is
\* representable in the basic type typ, and the value written to *rounded.
representableConst(val, typ) ==
    CASE isInteger(typ) ->
            LET i == ToInt(val)
            IN  [rounded |-> i,
                 ok |-> /\ i.k = "int"
                        /\ CASE typ.name \in {"untyped int", "untyped rune"} -> TRUE
                             [] i.huge -> FALSE
                             [] typ.name = "int8" -> i.v \in -128..127
                             [] typ.name = "byte" -> i.v \in 0..255
                             [] typ.name = "uintptr" -> i.v >= 0
                             [] OTHER -> TRUE]
      [] isFloat(typ) \/ isComplex(typ) ->
            [rounded |-> ToFloat(val), ok |-> ToFloat(val).k = "float"]
      [] isString(typ) -> [rounded |-> val, ok |-> val.k = "string"]
      [] isBoolean(typ) -> [rounded |-> val, ok |-> val.k = "bool"]
      [] OTHER -> [rounded |-> val, ok |-> FALSE]

\* An operand: its mode, type and constant value.
Operand(mode, typ, val) == [mode |-> mode, typ |-> typ, val |-> val]

\* x.isNil()
isNil(x) == x.mode = "value" /\ x.typ = BasicType("untyped nil")

\* V implements the interface T: every type implements the empty
\* interface, the named type MyInt has the method of Stringer.
missingMethod(V, T) ==
    ~(T.name = "" \/ (V.k = "Named" /\ V.name = "MyInt")
                  \/ (V.k = "Interface" /\ V.name = T.name))

\* x.assignableTo(check, T, nil)
assignableTo(x, T) ==
    LET V == x.typ
        Vu == Underlying(V)
        Tu == Underlying(T)
    IN  IF x.mode = "invalid" THEN TRUE
        ELSE IF identicalTypes(V, T, TRUE) THEN TRUE
        ELSE IF isUntyped(Vu) /\ Tu.k = "Basic"
        THEN IF isNil(x) /\ Tu.name = "unsafe.Pointer" THEN TRUE
             ELSE IF x.mode = "constant" THEN representableConst(x.val, Tu).ok
             ELSE Vu.name = "untyped bool" /\ isBoolean(Tu)
        ELSE IF isUntyped(Vu) /\ Tu.k = "Interface"
        THEN isNil(x) \/ Tu.name = ""
        ELSE IF isUntyped(Vu) /\ Tu.k \in {"Pointer", "Slice"}
        THEN isNil(x)
        ELSE IF identicalTypes(Vu, Tu, TRUE) /\ (~isNamed(V) \/ ~isNamed(T)) THEN TRUE
        ELSE Tu.k = "Interface" /\ ~missingMethod(V, Tu)

\* x.convertibleTo(check, T)
convertibleTo(x, T) ==
    LET V == x.typ
        Vu == Underlying(V)
        Tu == Underlying(T)
    IN  \/ assignableTo(x, T)
        \/ identicalTypes(Vu, Tu, FALSE)
        \/ /\ V.k = "Pointer" /\ T.k = "Pointer"
           /\ identicalTypes(Underlying(V.elem), Underlying(T.elem), FALSE)
        \/ (isInteger(V) \/ isFloat(V)) /\ (isInteger(T) \/ isFloat(T))
        \/ isComplex(V) /\ isComplex(T)
        \/ (isInteger(V) \/ isBytesOrRunes(Vu)) /\ isString(T)
        \/ isString(V) /\ isBytesOrRunes(Tu)
        \/ (isPointer(Vu) \/ isUintptr(Vu)) /\ isUnsafePointer(T)
        \/ isUnsafePointer(V) /\ (isPointer(Tu) \/ isUintptr(Tu))

\* constant.Int64Val(x.val), and string(rune(codepoint)): an invalid code
\* point gives the replacement character U+FFFD.
Int64Val(val) == [i |-> IF val.huge THEN 0 ELSE val.v, ok |-> ~val.huge]
runeString(codepoint) ==
    IF codepoint < 0 \/ codepoint > 1114111 \/ codepoint \in 55296..57343
    THEN << 65533 >> ELSE << codepoint >>

\* The inner switch of conversion, on t := T.Basic(): ok, and the operand
\* with the value the case gave it.
constantConversion(x, t) ==
    IF representableConst(x.val, t).ok
    THEN [ok |-> TRUE, x |-> [x EXCEPT !.val = representableConst(x.val, t).rounded]]
    ELSE IF isInteger(x.typ) /\ isString(t)
    THEN [ok |-> TRUE,
          x |-> [x EXCEPT !.val =
                    Val("string", 0, FALSE, FALSE,
                        runeString(IF Int64Val(x.val).ok THEN Int64Val(x.val).i ELSE -1))]]
    ELSE [ok |-> FALSE, x |-> x]

\* case x.convertibleTo(check, T): x.mode = value; ok = true
nonConstantConversion(x, T) ==
    IF convertibleTo(x, T)
    THEN [ok |-> TRUE, x |-> [x EXCEPT !.mode = "value"]]
    ELSE [ok |-> FALSE, x |-> x]

\* The outer switch with a constant case that falls through to the
\* non-constant one when it did not set ok.
convSwitchFallThrough(x, T) ==
    IF x.mode = "constant" /\ isConstType(T) /\ constantConversion(x, BasicOf(T)).ok
    THEN constantConversion(x, BasicOf(T))
    ELSE nonConstantConversion(x, T)

\* The outer switch of conversion: the first case whose condition holds is
\* taken, and no other.
convSwitch(x, T) ==
    IF x.mode = "constant" /\ isConstType(T)
    THEN constantConversion(x, BasicOf(T))
    ELSE nonConstantConversion(x, T)

\* The final type conversion hands to updateExprType for an untyped operand.
finalType(x, T, constArg) ==
    IF isInterfaceType(T) \/ (constArg /\ ~isConstType(T)) THEN Default(x.typ)
    ELSE IF isInteger(x.typ) /\ isString(T) THEN x.typ
    ELSE T

\* Checker.conversion(x, T): the operand on return, the errors reported and
\* the calls of updateExprType.
conversionResult(x, T) ==
    LET c == convSwitch(x, T)
    IN  IF ~c.ok
        THEN [x |-> [c.x EXCEPT !.mode = "invalid"],
              errs |-> << "cannot convert" >>,
              finals |-> <<>>]
        ELSE [x |-> [c.x EXCEPT !.typ = T],
              errs |-> <<>>,
              finals |-> IF isUntyped(c.x.typ)
                         THEN << finalType(c.x, T, x.mode = "constant") >>
                         ELSE <<>>]

\* check.conversion(x, T) runs from its call to its return.
conversion ==
    /\ convpc = "call"
    /\ convX' = conversionResult(convX, convIn.T).x
    /\ diags' = diags \o conversionResult(convX, convIn.T).errs
    /\ untypedFinal' = untypedFinal \o conversionResult(convX, convIn.T).finals
    /\ convpc' = "returned"
    /\ UNCHANGED <<convIn, pkg, color, otyp, objPath, named, leafTyp, frames, delayed,
                   nextObj, rlog, tvars, cvars, fvars>>

\* The types of the conversions: type S1 struct{ a int `t1` },
\* type S2 struct{ a int `t2` }, type MyInt int with a String method,
\* type MyStr string.
StructT1 == StructT("t1", BasicType("int"))
StructT2 == StructT("t2", BasicType("int"))
TargetTypes ==
    {BasicType(n) : n \in {"int", "int8", "byte", "float64", "complex128", "string",
                        "bool", "uintptr", "unsafe.Pointer"}}
    \cup {NamedType("MyInt", BasicType("int")), NamedType("MyStr", BasicType("string")),
          NamedType("S1", StructT1), NamedType("S2", StructT2), StructT1, StructT2,
          PointerT(NamedType("S1", StructT1)), PointerT(NamedType("S2", StructT2)),
          SliceT(BasicType("byte")), SliceT(BasicType("int")),
          InterfaceT(""), InterfaceT("String")}

\* The constant operands: typed and untyped constants with their values.
IntVal(v) == Val("int", v, FALSE, FALSE, <<>>)
ConstOperands ==
    {Operand("constant", BasicType("untyped int"), v) :
        v \in {IntVal(-1), IntVal(65), IntVal(300), Val("int", 0, FALSE, TRUE, <<>>)}}
    \cup {Operand("constant", BasicType("untyped float"), Val("float", 1, f, FALSE, <<>>)) :
             f \in BOOLEAN}
    \cup {Operand("constant", BasicType("int"), IntVal(v)) : v \in {-1, 65, 300}}
    \cup {Operand("constant", BasicType("untyped rune"), IntVal(65)),
          Operand("constant", BasicType("int8"), IntVal(65)),
          Operand("constant", NamedType("MyInt", BasicType("int")), IntVal(300)),
          Operand("constant", BasicType("float64"), Val("float", 1, TRUE, FALSE, <<>>)),
          Operand("constant", BasicType("untyped string"), Val("string", 0, FALSE, FALSE, <<104, 105>>)),
          Operand("constant", BasicType("string"), Val("string", 0, FALSE, FALSE, <<104, 105>>)),
          Operand("constant", BasicType("untyped bool"), Val("bool", 1, FALSE, FALSE, <<>>))}

\* The operands that are not constants: variables of every type, and the
\* untyped values (nil, the result of a comparison or of a shift).
ValueOperands ==
    {Operand("variable", t, NoVal) : t \in TargetTypes}
    \cup {Operand("value", BasicType(n), NoVal) :
             n \in {"untyped nil", "untyped bool", "untyped int"}}

\* The type checker reaches the conversion T(x).
InitConversion ==
    /\ InitSession
    /\ NoChecker
    /\ NoTypeParams
    /\ NoFile
    /\ convIn \in [x : ConstOperands \cup ValueOperands, T : TargetTypes]
    /\ convX = convIn.x
    /\ untypedFinal = <<>>
    /\ convpc = "call"

NextConversion == conversion

SpecConversion == InitConversion /\ [][NextConversion]_vars

----------------------------------------------------------------------------
(* C40: the outcomes of conversion.                                        *)

Rejected ==
    /\ diags = << "cannot convert" >>
    /\ convX.mode = "invalid"
    /\ convX.typ = convIn.x.typ

Converted ==
    /\ diags = <<>>
    /\ convX.mode # "invalid"
    /\ convX.typ = convIn.T

\* The value of the constant x is representable in T, or x is an integer
\* and T a string type.
ConstantConvertible(x, T) ==
    \/ representableConst(x.val, BasicOf(T)).ok
    \/ isInteger(x.typ) /\ isString(T)

\* C40: when conversion(x, T) has returned, either it reported one "cannot
\* convert" error, x.mode is invalid and x.typ is what it was, or it
\* reported nothing and x.typ is T; and for a constant x and a constant
\* type T it succeeded exactly when the value is representable in T or x is
\* an integer and T a string type, whatever convertibleTo says of x and T.
C40_TwoOutcomes ==
    convpc = "returned" =>
        /\ Rejected \/ Converted
        /\ (convIn.x.mode = "constant" /\ isConstType(convIn.T)) =>
              (Converted <=> ConstantConvertible(convIn.x, convIn.T))

\* C40 witness: the constant 300 of type int was converted to int8; the
\* value is not representable, the conversion was rejected with one error
\* and x.typ is still int, although an int converts to int8 by the
\* non-constant rules.
C40_Witness ==
    /\ convpc = "returned"
    /\ convIn.x = Operand("constant", BasicType("int"), IntVal(300))
    /\ convIn.T = BasicType("int8")
    /\ convertibleTo(convIn.x, convIn.T)
    /\ Rejected

====
